---- MODULE Spec2Model ----
(***************************************************************************)
(* A model of the SWApi function app: six HTTP handlers (get_all,          *)
(* get_statistics, get_by_id, create, update, delete) over a relational    *)
(* store of six entity types, and the statistics aggregation of            *)
(* get_statistics with its helpers safe_float and calculate_average.       *)
(*                                                                         *)
(* Python values are tagged records: None, Str(<a sequence of one-         *)
(* character strings>), IntV(n), floats as exact decimals Float(num, den), *)
(* and a raised exception as Raise(<exception class>).                     *)
(***************************************************************************)
EXTENDS Integers, Sequences, FiniteSets, TLC

VARIABLES
    store,   \* the committed rows of each table, in the order a bulk read yields them
    links,   \* the rows of the association tables, as <<table, left id, right id>>
    ident,   \* per table, the last identifier the store has generated
    last,    \* the request served last: the request, its trace of session events, its response
    pend,    \* the get_statistics invocation between its two reads (or Idle)
    arg,     \* the argument of the helper under check
    out      \* its result (Pending before the call)

vars == <<store, links, ident, last, pend, arg, out>>

----------------------------------------------------------------------------
(* Bounds of the model. *)

MaxLen == 3       \* length of the enumerated raw field strings
MaxRows == 2      \* rows per table
MaxId == 2        \* identifiers the store generates per table

----------------------------------------------------------------------------
(* Python values. *)

None == [t |-> "none"]
Str(s) == [t |-> "str", v |-> s]
IntV(n) == [t |-> "int", v |-> n]
Float(n, d) == [t |-> "float", num |-> n, den |-> d]
Raise(e) == [t |-> "raise", exc |-> e]
Pending == [t |-> "pending"]

IsStr(x) == x.t = "str"
IsFloat(x) == x.t = "float"
\* rows and documents carry no tag
IsRaise(x) == "t" \in DOMAIN x /\ x.t = "raise"

\* The string literals the source names, as character sequences.
S_unknown == <<"u", "n", "k", "n", "o", "w", "n">>
S_na == <<"n", "/", "a">>
S_none == <<"n", "o", "n", "e">>
S_empty == <<>>

----------------------------------------------------------------------------
(* str methods. *)

Digits == <<"0", "1", "2", "3", "4", "5", "6", "7", "8", "9">>
UpperCase == <<"A", "B", "C", "D", "E", "F", "G", "H", "I", "J", "K", "L", "M",
               "N", "O", "P", "Q", "R", "S", "T", "U", "V", "W", "X", "Y", "Z">>
LowerCase == <<"a", "b", "c", "d", "e", "f", "g", "h", "i", "j", "k", "l", "m",
               "n", "o", "p", "q", "r", "s", "t", "u", "v", "w", "x", "y", "z">>

IsDigit(c) == \E i \in DOMAIN Digits : Digits[i] = c
DigitVal(c) == (CHOOSE i \in DOMAIN Digits : Digits[i] = c) - 1
IsSpace(c) == c = " "

LowerChar(c) ==
    IF \E i \in DOMAIN UpperCase : UpperCase[i] = c
    THEN LowerCase[CHOOSE i \in DOMAIN UpperCase : UpperCase[i] = c]
    ELSE c

\* str.lower()
Lower(s) == [i \in DOMAIN s |-> LowerChar(s[i])]

\* str.replace(c, "")
Remove(s, c) == SelectSeq(s, LAMBDA x : x # c)

\* str.strip(): leading and trailing whitespace removed
Strip(s) ==
    LET keep == {i \in DOMAIN s : ~IsSpace(s[i])}
    IN  IF keep = {} THEN <<>>
        ELSE LET lo == CHOOSE i \in keep : \A j \in keep : i <= j
                 hi == CHOOSE i \in keep : \A j \in keep : j <= i
             IN  SubSeq(s, lo, hi)

\* str.split(c): the pieces between the occurrences of c, at least one piece
RECURSIVE Split(_, _)
Split(s, c) ==
    IF \A i \in DOMAIN s : s[i] # c THEN <<s>>
    ELSE LET k == CHOOSE i \in DOMAIN s : s[i] = c /\ \A j \in 1..(i - 1) : s[j] # c
         IN  <<SubSeq(s, 1, k - 1)>> \o Split(SubSeq(s, k + 1, Len(s)), c)

----------------------------------------------------------------------------
(* float(str), for strings of digits, ".", a sign and surrounding          *)
(* whitespace; every other string is a ValueError.  The result is the      *)
(* exact decimal num/den, den the least power of ten.                      *)

RECURSIVE Pow10(_)
Pow10(k) == IF k = 0 THEN 1 ELSE 10 * Pow10(k - 1)

RECURSIVE DigitsValue(_)
DigitsValue(s) ==
    IF s = <<>> THEN 0
    ELSE 10 * DigitsValue(SubSeq(s, 1, Len(s) - 1)) + DigitVal(s[Len(s)])

RECURSIVE DropTrailingZeros(_)
DropTrailingZeros(s) ==
    IF s # <<>> /\ s[Len(s)] = "0" THEN DropTrailingZeros(SubSeq(s, 1, Len(s) - 1))
    ELSE s

AllDigits(s) == \A i \in DOMAIN s : IsDigit(s[i])

\* the digits before and after the point, the point's trailing zeros dropped
FloatOfDigits(sign, ip, fp) ==
    Float(sign * (DigitsValue(ip) * Pow10(Len(fp)) + DigitsValue(fp)), Pow10(Len(fp)))

\* parts: the unsigned text split at "."
FloatOfParts(sign, parts) ==
    IF /\ Len(parts) <= 2
       /\ \A i \in DOMAIN parts : AllDigits(parts[i])
       /\ \E i \in DOMAIN parts : parts[i] # <<>>
    THEN FloatOfDigits(sign, parts[1],
                       IF Len(parts) = 2 THEN DropTrailingZeros(parts[2]) ELSE <<>>)
    ELSE Raise("ValueError")

Signed(t) == t # <<>> /\ t[1] \in {"-", "+"}

\* t: the text without its surrounding whitespace
FloatOfStripped(t) ==
    FloatOfParts(IF Signed(t) /\ t[1] = "-" THEN -1 ELSE 1,
                 Split(IF Signed(t) THEN Tail(t) ELSE t, "."))

PyFloat(s) == FloatOfStripped(Strip(s))

----------------------------------------------------------------------------
(* The sentinel list of the statistics code. *)

\* value in ["unknown", "n/a", "none", None, ""]
InSentinelList(value) ==
    \/ value = None
    \/ IsStr(value) /\ value.v \in {S_unknown, S_na, S_none, S_empty}

\* value.replace(",", ""): only a str has the method
ReplaceCommas(value) ==
    IF IsStr(value) THEN Str(Remove(value.v, ",")) ELSE Raise("AttributeError")

\* float(r) for the replaced text r, or the exception replace raised
FloatOfReplaced(r) == IF IsRaise(r) THEN r ELSE PyFloat(r.v)

\* safe_float without its except clause: what the try block evaluates to
safe_float_try(value) ==
    IF InSentinelList(value) THEN None ELSE FloatOfReplaced(ReplaceCommas(value))

\* except (ValueError, AttributeError): return None
ExceptNone(r) ==
    IF IsRaise(r) /\ r.exc \in {"ValueError", "AttributeError"} THEN None ELSE r

safe_float(value) == ExceptNone(safe_float_try(value))

----------------------------------------------------------------------------
(* models.py: the six mapped classes, their columns and relationships.     *)

ValidRoutes == {"films", "people", "planets", "species", "vehicles", "starships"}

route_to_model ==
    [films |-> "Film", people |-> "Person", planets |-> "Planet",
     species |-> "Species", vehicles |-> "Vehicle", starships |-> "Starship"]

\* route_to_model.get(route)
get_model_class(route) ==
    IF route \in DOMAIN route_to_model THEN route_to_model[route] ELSE "None"

Columns(route) ==
    CASE route = "films" ->
            {"id", "title", "episode_id", "opening_crawl", "director", "producer",
             "release_date", "created", "edited", "url"}
      [] route = "people" ->
            {"id", "name", "height", "mass", "hair_color", "skin_color", "eye_color",
             "birth_year", "gender", "homeworld_id", "created", "edited", "url"}
      [] route = "planets" ->
            {"id", "name", "rotation_period", "orbital_period", "diameter", "climate",
             "gravity", "terrain", "surface_water", "population", "created", "edited",
             "url"}
      [] route = "species" ->
            {"id", "name", "classification", "designation", "average_height",
             "skin_colors", "hair_colors", "eye_colors", "average_lifespan",
             "homeworld_id", "language", "created", "edited", "url"}
      [] route = "vehicles" ->
            {"id", "name", "model", "manufacturer", "cost_in_credits", "length",
             "max_atmosphering_speed", "crew", "passengers", "cargo_capacity",
             "consumables", "vehicle_class", "created", "edited", "url"}
      [] route = "starships" ->
            {"id", "name", "model", "manufacturer", "cost_in_credits", "length",
             "max_atmosphering_speed", "crew", "passengers", "cargo_capacity",
             "consumables", "hyperdrive_rating", "MGLT", "starship_class", "created",
             "edited", "url"}

\* Column(Integer ...); every other column is a String or Text
IntegerColumns == {"id", "episode_id", "homeworld_id"}

\* relationship(...): key, the table of the related rows, and how they are found:
\* through an association table (this row on its left or right side), through
\* this row's foreign key ("own"), or through the related rows' foreign key ("theirs").
Rel(k, tgt, via, side) == [key |-> k, target |-> tgt, table |-> via, side |-> side]

Relationships(route) ==
    CASE route = "films" ->
            <<Rel("characters", "people", "film_people", "L"),
              Rel("planets", "planets", "film_planets", "L"),
              Rel("species", "species", "film_species", "L"),
              Rel("vehicles", "vehicles", "film_vehicles", "L"),
              Rel("starships", "starships", "film_starships", "L")>>
      [] route = "people" ->
            <<Rel("homeworld", "planets", "homeworld_id", "own"),
              Rel("films", "films", "film_people", "R"),
              Rel("species", "species", "person_species", "L"),
              Rel("vehicles", "vehicles", "person_vehicles", "L"),
              Rel("starships", "starships", "person_starships", "L")>>
      [] route = "planets" ->
            <<Rel("residents", "people", "homeworld_id", "theirs"),
              Rel("films", "films", "film_planets", "R"),
              Rel("native_species", "species", "homeworld_id", "theirs")>>
      [] route = "species" ->
            <<Rel("homeworld", "planets", "homeworld_id", "own"),
              Rel("people", "people", "person_species", "R"),
              Rel("films", "films", "film_species", "R")>>
      [] route = "vehicles" ->
            <<Rel("pilots", "people", "person_vehicles", "R"),
              Rel("films", "films", "film_vehicles", "R")>>
      [] route = "starships" ->
            <<Rel("pilots", "people", "person_starships", "R"),
              Rel("films", "films", "film_starships", "R")>>

IsListRel(rel) == rel.side # "own"

\* getattr(obj, relationship.key) for a list relationship: the related rows,
\* read from the committed tables st and association rows lk
RelatedList(st, lk, obj, rel) ==
    SelectSeq(st[rel.target],
              LAMBDA r :
                 CASE rel.side = "L" -> <<rel.table, obj.id.v, r.id.v>> \in lk
                   [] rel.side = "R" -> <<rel.table, r.id.v, obj.id.v>> \in lk
                   [] rel.side = "theirs" -> r.homeworld_id = obj.id
                   [] OTHER -> FALSE)

\* getattr(obj, relationship.key) for a many-to-one relationship: the row or None
RelatedOne(st, obj, rel) ==
    LET hits == SelectSeq(st[rel.target], LAMBDA r : r.id = obj.homeworld_id)
    IN  IF hits = <<>> THEN None ELSE hits[1]

----------------------------------------------------------------------------
(* JSON documents: a scalar is None, Str or IntV; List(<sequence>) is an   *)
(* array; an object is a function from its keys.                           *)

List(s) == [t |-> "list", v |-> s]
Dict(f) == [t |-> "dict", v |-> f]
EmptyDict == [k \in {} |-> None]

RECURSIVE MergeAll(_)
MergeAll(fs) == IF fs = <<>> THEN EmptyDict ELSE MergeAll(Tail(fs)) @@ Head(fs)

\* to_dict that serializes the related rows with their own related rows:
\* levels counts the levels of related documents below the row
RECURSIVE to_dict_Levels(_, _, _, _, _)
to_dict_Levels(st, lk, route, obj, levels) ==
    LET columns == [c \in Columns(route) |-> obj[c]]
        rels == Relationships(route)
        entry(rel) ==
            IF IsListRel(rel)
            THEN LET related_objs == RelatedList(st, lk, obj, rel)
                 IN  IF levels = 0
                     THEN (rel.key \o "_ids") :>
                              List([i \in DOMAIN related_objs |-> related_objs[i].id])
                     ELSE rel.key :>
                              List([i \in DOMAIN related_objs |->
                                      Dict(to_dict_Levels(st, lk, rel.target, related_objs[i],
                                                          levels - 1))])
            ELSE LET related_objs == RelatedOne(st, obj, rel)
                 IN  IF related_objs = None THEN EmptyDict
                     ELSE IF levels = 0
                          THEN (rel.key \o "_id") :> related_objs.id
                          ELSE rel.key :> Dict(to_dict_Levels(st, lk, rel.target, related_objs,
                                                              levels - 1))
    IN  MergeAll([i \in DOMAIN rels |-> entry(rels[i])]) @@ columns

to_dict_Deep(st, lk, route, obj, include_relationships) ==
    to_dict_Levels(st, lk, route, obj, IF include_relationships THEN 2 ELSE 0)

\* to_dict(obj, include_relationships) for a row obj of table route.  A key
\* assigned twice keeps the later assignment.
RECURSIVE to_dict(_, _, _, _, _)
to_dict(st, lk, route, obj, include_relationships) ==
    LET columns == [c \in Columns(route) |-> obj[c]]
        rels == Relationships(route)
        entry(rel) ==
            IF IsListRel(rel)
            THEN LET related_objs == RelatedList(st, lk, obj, rel)
                 IN  IF ~include_relationships
                     THEN (rel.key \o "_ids") :>
                              List([i \in DOMAIN related_objs |-> related_objs[i].id])
                     ELSE rel.key :>
                              List([i \in DOMAIN related_objs |->
                                      Dict(to_dict(st, lk, rel.target, related_objs[i], FALSE))])
            ELSE LET related_objs == RelatedOne(st, obj, rel)
                 IN  IF related_objs = None THEN EmptyDict
                     ELSE IF ~include_relationships
                          THEN (rel.key \o "_id") :> related_objs.id
                          ELSE rel.key :> Dict(to_dict(st, lk, rel.target, related_objs, FALSE))
    IN  MergeAll([i \in DOMAIN rels |-> entry(rels[i])]) @@ columns

----------------------------------------------------------------------------
(* The store behind the session: typed columns, generated identifiers,     *)
(* primary and foreign keys.  A statement the store rejects raises         *)
(* SQLAlchemyError.                                                        *)

RECURSIVE DecimalDigits(_)
DecimalDigits(n) ==
    IF n < 10 THEN <<Digits[n + 1]>> ELSE Append(DecimalDigits(n \div 10), Digits[(n % 10) + 1])

\* The value a column of the given type holds after value was written to it.
Coerce(column, value) ==
    IF value = None THEN None
    ELSE IF column \in IntegerColumns
         THEN IF value.t = "int" THEN value
              ELSE IF AllDigits(Strip(value.v)) THEN IntV(DigitsValue(Strip(value.v)))
              ELSE Raise("SQLAlchemyError")
         ELSE IF value.t = "str" THEN value
              ELSE Str(DecimalDigits(value.v))

Ids(st, route) == {st[route][i].id : i \in DOMAIN st[route]}

\* The row as the table stores it, or the store's error.
StoredRow(st, route, item) ==
    LET row == [c \in Columns(route) |-> Coerce(c, item[c])]
    IN  IF \E c \in Columns(route) : IsRaise(row[c]) THEN Raise("SQLAlchemyError")
        ELSE IF "homeworld_id" \in Columns(route) /\ row.homeworld_id # None
                /\ row.homeworld_id \notin Ids(st, "planets")
             THEN Raise("SQLAlchemyError")
        ELSE row

MaxOf(a, b) == IF a >= b THEN a ELSE b

\* the INSERT made twice
Insert_Twice(st, idn, route, item) ==
    LET row == StoredRow(st, route, item)
    IN  IF IsRaise(row) THEN row
        ELSE LET id == IF row.id = None THEN IntV(idn[route] + 1) ELSE row.id
             IN  IF id \in Ids(st, route) THEN Raise("SQLAlchemyError")
                 ELSE [store |-> [st EXCEPT ![route] = @ \o <<[row EXCEPT !.id = id],
                                                             [row EXCEPT !.id = id]>>],
                       ident |-> [idn EXCEPT ![route] = MaxOf(@, id.v)],
                       id |-> id,
                       t |-> "ok"]

\* INSERT of item at commit: the identifier is generated when none is given.
Insert(st, idn, route, item) ==
    LET row == StoredRow(st, route, item)
    IN  IF IsRaise(row) THEN row
        ELSE LET id == IF row.id = None THEN IntV(idn[route] + 1) ELSE row.id
             IN  IF id \in Ids(st, route) THEN Raise("SQLAlchemyError")
                 ELSE [store |-> [st EXCEPT ![route] = Append(@, [row EXCEPT !.id = id])],
                       ident |-> [idn EXCEPT ![route] = MaxOf(@, id.v)],
                       id |-> id,
                       t |-> "ok"]

\* the UPDATE on a store that lets the identifier column be assigned: the row
\* is written under the identifier it was given
UpdateRow_Renumber(st, route, id, item) ==
    LET row == StoredRow(st, route, item)
    IN  IF IsRaise(row) THEN row
        ELSE [store |-> [st EXCEPT ![route] =
                            IF row.id = id
                            THEN [i \in DOMAIN @ |-> IF @[i].id = id THEN row ELSE @[i]]
                            ELSE Append(@, row)],
              t |-> "ok"]

\* UPDATE of the row with identifier id to item at commit.  The identifier
\* column is generated by the store and cannot be assigned.
UpdateRow(st, route, id, item) ==
    LET row == StoredRow(st, route, item)
    IN  IF IsRaise(row) THEN row
        ELSE IF row.id # id THEN Raise("SQLAlchemyError")
        ELSE [store |-> [st EXCEPT ![route] =
                            [i \in DOMAIN @ |-> IF @[i].id = id THEN row ELSE @[i]]],
              t |-> "ok"]

\* the DELETE that removes nothing
DeleteRow_Kept(st, lk, route, id) == [store |-> st, links |-> lk]

\* DELETE of the row at commit: its association rows go with it, and the
\* rows referring to a deleted planet lose the reference.
DeleteRow(st, lk, route, id) ==
    LET table == SelectSeq(st[route], LAMBDA r : r.id # id)
        touches(l) ==
            \E i \in DOMAIN Relationships(route) :
                LET rel == Relationships(route)[i]
                IN  /\ l[1] = rel.table
                    /\ \/ rel.side = "L" /\ l[2] = id.v
                       \/ rel.side = "R" /\ l[3] = id.v
        unref(rows) ==
            [i \in DOMAIN rows |->
                IF rows[i].homeworld_id = id THEN [rows[i] EXCEPT !.homeworld_id = None]
                ELSE rows[i]]
        st1 == [st EXCEPT ![route] = table]
    IN  [store |-> IF route = "planets"
                   THEN [st1 EXCEPT !["people"] = unref(@), !["species"] = unref(@)]
                   ELSE st1,
         links |-> {l \in lk : ~touches(l)}]

----------------------------------------------------------------------------
(* Requests, responses and the session of a handler invocation.            *)

\* A request: the handler the host dispatches to, the {route} and {id} path
\* parameters, the include_relationships query parameter (None when missing)
\* and the body (Malformed: not JSON; None: JSON null; Dict: a JSON object).
Request(h, route, id, inc, body) ==
    [handler |-> h, route |-> route, id |-> id, inc |-> inc, body |-> body]

Malformed == [t |-> "malformed"]
NoBody == [t |-> "empty"]

\* func.HttpResponse(body=json.dumps(body), status_code=status)
Resp(status, body) == [status |-> status, body |-> body]

\* the text under another key
ErrorDoc_Message(text) == [message |-> text]

\* {"error": <text>}; the text of an exception is modelled by its class name
ErrorDoc(text) == [error |-> text]
DbErrorDoc == [error |-> "Database error", details |-> "store text"]

\* What a handler invocation yields: the response, the exception raised while
\* serving ("none" when none was), the session events in order, and the
\* committed store it leaves.
Out(resp, exc, trace, st, lk, idn) ==
    [t |-> "out", resp |-> resp, exc |-> exc, trace |-> trace, store |-> st, links |-> lk, ident |-> idn]

\* except Exception as e: 500 with the text of the exception
CatchBroadly(exc) == Resp(500, ErrorDoc(exc))

\* the except clauses without the one for SQLAlchemyError
Catch_Unclassified(exc) == Resp(500, ErrorDoc(exc))

\* except SQLAlchemyError as e: 400; except Exception as e: 500
Catch(exc) ==
    IF exc = "SQLAlchemyError" THEN Resp(400, DbErrorDoc) ELSE Resp(500, ErrorDoc(exc))

\* the not-found answer in the place of the invalid-route answer
InvalidRoute_NotFound(st, lk, idn) ==
    Out(Resp(404, ErrorDoc("Not found")), "none", <<>>, st, lk, idn)

\* the route check made after the session was acquired and a statement run
InvalidRoute_AfterSession(st, lk, idn) ==
    Out(Resp(404, ErrorDoc("Invalid route")), "none",
        <<"SessionLocal", "close", "execute">>, st, lk, idn)

InvalidRoute(st, lk, idn) ==
    Out(Resp(404, ErrorDoc("Invalid route")), "none", <<>>, st, lk, idn)

\* one session made at import and handed to every invocation
get_db_Module == <<>>

\* db = next(get_db()): SessionLocal() is called and the generator runs to its
\* yield.  Nothing holds the generator once next() has returned, so it is
\* finalized there (reference counting): GeneratorExit is raised at the yield
\* and the finally clause runs db.close(), before the handler's first store
\* operation.  The session is used afterwards and close() is not called again.
get_db == <<"SessionLocal", "close">>

\* the comparison without lower()
IncludeFlag_Exact(inc) ==
    (IF inc = None THEN <<>> ELSE inc.v) = <<"t", "r", "u", "e">>

\* req.params.get("include_relationships", "").lower() == "true"
IncludeFlag(inc) ==
    Lower(IF inc = None THEN <<>> ELSE inc.v) = <<"t", "r", "u", "e">>

\* req.get_json()
get_json(body) == IF body = Malformed THEN Raise("ValueError") ELSE body

\* The faults of the store: the statement named raises SQLAlchemyError.
Faults == {"none", "query", "commit", "refresh"}

\* first() without the filter on the id
Find_Unfiltered(st, route, id) ==
    IF st[route] = <<>> THEN None ELSE st[route][1]

\* db.query(model_class).filter(model_class.id == id).first()
Find(st, route, id) ==
    LET hits == SelectSeq(st[route], LAMBDA r : r.id = id)
    IN  IF hits = <<>> THEN None ELSE hits[1]

----------------------------------------------------------------------------
(* The handlers. *)

\* the first row in the place of all the rows
get_all_First(req, fault, st, lk, idn) ==
    LET route == req.route
        include_relationships == IncludeFlag(req.inc)
        model_class == get_model_class(route)
        trace == get_db \o <<"execute">>
    IN  IF model_class = "None" THEN InvalidRoute(st, lk, idn)
        ELSE IF fault = "query"
             THEN Out(CatchBroadly("SQLAlchemyError"), "SQLAlchemyError", trace, st, lk, idn)
        ELSE LET items == IF st[route] = <<>> THEN <<>> ELSE <<st[route][1]>>
             IN  Out(Resp(200, List([i \in DOMAIN items |->
                                       Dict(to_dict(st, lk, route, items[i], include_relationships))])),
                     "none", trace, st, lk, idn)

get_all(req, fault, st, lk, idn) ==
    LET route == req.route
        include_relationships == IncludeFlag(req.inc)
        model_class == get_model_class(route)
        trace == get_db \o <<"execute">>
    IN  IF model_class = "None" THEN InvalidRoute(st, lk, idn)
        ELSE IF fault = "query"
             THEN Out(CatchBroadly("SQLAlchemyError"), "SQLAlchemyError", trace, st, lk, idn)
        ELSE LET items == st[route]
             IN  Out(Resp(200, List([i \in DOMAIN items |->
                                       Dict(to_dict(st, lk, route, items[i], include_relationships))])),
                     "none", trace, st, lk, idn)

get_by_id(req, fault, st, lk, idn) ==
    LET route == req.route
        id == req.id
        include_relationships == IncludeFlag(req.inc)
        model_class == get_model_class(route)
        trace == get_db \o <<"execute">>
    IN  IF model_class = "None" THEN InvalidRoute(st, lk, idn)
        ELSE IF fault = "query"
             THEN Out(CatchBroadly("SQLAlchemyError"), "SQLAlchemyError", trace, st, lk, idn)
        ELSE LET item == Find(st, route, id)
             IN  IF item = None
                 THEN Out(Resp(404, ErrorDoc("Not found")), "none", trace, st, lk, idn)
                 ELSE Out(Resp(200, Dict(to_dict(st, lk, route, item, include_relationships))),
                          "none", trace, st, lk, idn)

\* model_class() without the keyword arguments
NewItem_Blank(route, data) ==
    IF data.t # "dict" THEN Raise("TypeError")
    ELSE [c \in Columns(route) |-> None]

\* model_class(**data): a mapping whose keys are attributes of the class
NewItem(route, data) ==
    IF data.t # "dict" THEN Raise("TypeError")
    ELSE IF \E k \in DOMAIN data.v : k \notin Columns(route) THEN Raise("TypeError")
    ELSE [c \in Columns(route) |-> IF c \in DOMAIN data.v THEN data.v[c] ELSE None]

create(req, fault, st, lk, idn) ==
    LET route == req.route
        model_class == get_model_class(route)
        data == get_json(req.body)
        db == get_db
        new_item == NewItem(route, data)
        ins == Insert(st, idn, route, new_item)
    IN  IF model_class = "None" THEN InvalidRoute(st, lk, idn)
        ELSE IF IsRaise(data) THEN Out(Catch(data.exc), data.exc, <<>>, st, lk, idn)
        ELSE IF IsRaise(new_item) THEN Out(Catch(new_item.exc), new_item.exc, db, st, lk, idn)
        ELSE IF fault = "commit" \/ IsRaise(ins)
             THEN Out(Catch("SQLAlchemyError"), "SQLAlchemyError",
                      db \o <<"add", "commit">>, st, lk, idn)
        ELSE IF fault = "refresh"
             THEN Out(Catch("SQLAlchemyError"), "SQLAlchemyError",
                      db \o <<"add", "commit", "refresh">>, ins.store, lk, ins.ident)
        ELSE Out(Resp(201, Dict(to_dict(ins.store, lk, route, Find(ins.store, route, ins.id), FALSE))),
                 "none", db \o <<"add", "commit", "refresh">>, ins.store, lk, ins.ident)

\* the loop over data.items() left out
SetAttrs_Skipped(route, item, data) ==
    IF data.t # "dict" THEN Raise("AttributeError")
    ELSE [c \in Columns(route) |-> item[c]]

\* for key, value in data.items(): setattr(item, key, value).  A key that is
\* no column becomes a plain attribute of the object and is never written.
SetAttrs(route, item, data) ==
    IF data.t # "dict" THEN Raise("AttributeError")
    ELSE [c \in Columns(route) |-> IF c \in DOMAIN data.v THEN data.v[c] ELSE item[c]]

update(req, fault, st, lk, idn) ==
    LET route == req.route
        id == req.id
        model_class == get_model_class(route)
        db == get_db \o <<"query">>
        item == Find(st, route, id)
        data == get_json(req.body)
        changed == SetAttrs(route, item, data)
        upd == UpdateRow(st, route, id, changed)
    IN  IF model_class = "None" THEN InvalidRoute(st, lk, idn)
        ELSE IF fault = "query"
             THEN Out(Catch("SQLAlchemyError"), "SQLAlchemyError", db, st, lk, idn)
        ELSE IF item = None
             THEN Out(Resp(404, ErrorDoc("Not found")), "none", db, st, lk, idn)
        ELSE IF IsRaise(data) THEN Out(Catch(data.exc), data.exc, db, st, lk, idn)
        ELSE IF IsRaise(changed) THEN Out(Catch(changed.exc), changed.exc, db, st, lk, idn)
        ELSE IF fault = "commit" \/ IsRaise(upd)
             THEN Out(Catch("SQLAlchemyError"), "SQLAlchemyError", db \o <<"commit">>, st, lk, idn)
        ELSE IF fault = "refresh"
             THEN Out(Catch("SQLAlchemyError"), "SQLAlchemyError",
                      db \o <<"commit", "refresh">>, upd.store, lk, idn)
        ELSE Out(Resp(200, Dict(to_dict(upd.store, lk, route, Find(upd.store, route, id), FALSE))),
                 "none", db \o <<"commit", "refresh">>, upd.store, lk, idn)

\* the failed commit made a second time
delete_Retry(req, fault, st, lk, idn) ==
    LET route == req.route
        id == req.id
        model_class == get_model_class(route)
        db == get_db \o <<"query">>
        item == Find(st, route, id)
        del == DeleteRow(st, lk, route, id)
    IN  IF model_class = "None" THEN InvalidRoute(st, lk, idn)
        ELSE IF fault = "query"
             THEN Out(Catch("SQLAlchemyError"), "SQLAlchemyError", db, st, lk, idn)
        ELSE IF item = None
             THEN Out(Resp(404, ErrorDoc("Not found")), "none", db, st, lk, idn)
        ELSE IF fault = "commit"
             THEN Out(Catch("SQLAlchemyError"), "SQLAlchemyError",
                      db \o <<"delete", "commit", "commit">>, st, lk, idn)
        ELSE Out(Resp(204, NoBody), "none", db \o <<"delete", "commit">>,
                 del.store, del.links, idn)

delete(req, fault, st, lk, idn) ==
    LET route == req.route
        id == req.id
        model_class == get_model_class(route)
        db == get_db \o <<"query">>
        item == Find(st, route, id)
        del == DeleteRow(st, lk, route, id)
    IN  IF model_class = "None" THEN InvalidRoute(st, lk, idn)
        ELSE IF fault = "query"
             THEN Out(Catch("SQLAlchemyError"), "SQLAlchemyError", db, st, lk, idn)
        ELSE IF item = None
             THEN Out(Resp(404, ErrorDoc("Not found")), "none", db, st, lk, idn)
        ELSE IF fault = "commit"
             THEN Out(Catch("SQLAlchemyError"), "SQLAlchemyError",
                      db \o <<"delete", "commit">>, st, lk, idn)
        ELSE Out(Resp(204, NoBody), "none", db \o <<"delete", "commit">>,
                 del.store, del.links, idn)

----------------------------------------------------------------------------
(* Lists, numbers and the built-ins the statistics use.                    *)

Range(s) == {s[i] : i \in DOMAIN s}
Count(s, x) == Cardinality({i \in DOMAIN s : s[i] = x})

RECURSIVE Flatten(_)
Flatten(ss) == IF ss = <<>> THEN <<>> ELSE Head(ss) \o Flatten(Tail(ss))

\* float('inf'); Lt orders the floats, the infinity included
Inf == Float(1, 0)
Lt(a, b) == a.num * b.den < b.num * a.den

\* max(keys) and min(keys) return the first of several equal extremes:
\* the index of the element returned
ArgMax(keys) ==
    CHOOSE i \in DOMAIN keys :
        /\ \A j \in DOMAIN keys : ~Lt(keys[i], keys[j])
        /\ \A j \in 1..(i - 1) : Lt(keys[j], keys[i])
ArgMin(keys) ==
    CHOOSE i \in DOMAIN keys :
        /\ \A j \in DOMAIN keys : ~Lt(keys[j], keys[i])
        /\ \A j \in 1..(i - 1) : Lt(keys[i], keys[j])

\* x or default: None and 0.0 are false
Or(x, default) == IF x = None \/ (IsFloat(x) /\ x.num = 0) THEN default ELSE x

\* The decimal n/d with d the least power of ten
RECURSIVE Normal(_, _)
Normal(n, d) == IF d > 1 /\ n % 10 = 0 THEN Normal(n \div 10, d \div 10) ELSE Float(n, d)

Add(a, b) ==
    LET d == MaxOf(a.den, b.den)
    IN  Float(a.num * (d \div a.den) + b.num * (d \div b.den), d)

RECURSIVE Sum(_)
Sum(values) == IF values = <<>> THEN Float(0, 1) ELSE Add(Head(values), Sum(Tail(values)))

\* round(num / den, 2), the quotient exact and a tie rounded to even
Round2(num, den) ==
    LET n == num * 100
        lo == n \div den
        rem == n % den
        q == IF 2 * rem < den THEN lo
             ELSE IF 2 * rem > den THEN lo + 1
             ELSE IF lo % 2 = 0 THEN lo ELSE lo + 1
    IN  Normal(q, 100)

\* [v for v in values if v is not None]
Valid(values) == SelectSeq(values, LAMBDA v : v # None)

\* sum(valid_values) / len(valid_values) if valid_values else None, the quotient
\* as the exact fraction <<numerator, denominator>>
MeanOf(valid_values) ==
    IF valid_values = <<>> THEN None
    ELSE <<Sum(valid_values).num, Sum(valid_values).den * Len(valid_values)>>

calculate_average(values) == MeanOf(Valid(values))

\* round(avg, 2)
RoundFraction(avg) == Round2(avg[1], avg[2])

\* round(calculate_average(valid), 2) if valid else None
RoundedAverage(valid) ==
    IF valid = <<>> THEN None ELSE RoundFraction(calculate_average(valid))

\* int(str): digits with an optional sign and surrounding whitespace
IntOfStripped(t) ==
    IF (IF Signed(t) THEN Tail(t) ELSE t) # <<>> /\ AllDigits(IF Signed(t) THEN Tail(t) ELSE t)
    THEN IntV((IF Signed(t) /\ t[1] = "-" THEN -1 ELSE 1)
              * DigitsValue(IF Signed(t) THEN Tail(t) ELSE t))
    ELSE Raise("ValueError")

PyInt(s) == IntOfStripped(Strip(s))

\* if value: a str that is not empty (None is false)
Truthy(value) == value # None /\ value.v # <<>>

\* A result that depends on the iteration order of a set: one of these values
OneOf(values) == [t |-> "oneof", v |-> values]

\* max(set(tokens), key=tokens.count) if tokens else None
MostCommon(tokens) ==
    IF tokens = <<>> THEN None
    ELSE OneOf({x \in Range(tokens) : \A y \in Range(tokens) : Count(tokens, y) <= Count(tokens, x)})

\* {x: tokens.count(x) for x in set(tokens)}
Distribution(tokens) == [x \in Range(tokens) |-> IntV(Count(tokens, x))]

\* [t.strip() for t in parts]
StripEach(parts) == [k \in DOMAIN parts |-> Strip(parts[k])]

\* [m.strip() for row in rows if row.attr for m in row.attr.split(',')]
SplitTruthy(rows, attr) ==
    Flatten([i \in DOMAIN rows |->
                IF Truthy(rows[i][attr]) THEN StripEach(Split(rows[i][attr].v, ","))
                ELSE <<>>])

\* [row for row in rows if row.attr not in ["unknown", "n/a", "none", None, ""]]
WithoutSentinel(rows, attr) == SelectSeq(rows, LAMBDA r : ~InSentinelList(r[attr]))

\* [row.attr for row in rows if row.attr not in ["unknown", "n/a", "none", None, ""]]
NotSentinel(rows, attr) ==
    [i \in DOMAIN WithoutSentinel(rows, attr) |-> WithoutSentinel(rows, attr)[i][attr].v]

\* [safe_float(row.attr) for row in rows]
Floats(rows, attr) == [i \in DOMAIN rows |-> safe_float(rows[i][attr])]

\* [key or default for key in keys]
OrEach(keys, default) == [i \in DOMAIN keys |-> Or(keys[i], default)]

\* max(rows, key=lambda x: safe_float(x.attr) or 0).name, values being the
\* safe_float of each row's attr; max() of no rows raises
NameOfMax(rows, values, name) ==
    IF rows = <<>> THEN Raise("ValueError")
    ELSE rows[ArgMax(OrEach(values, Float(0, 1)))][name]
\* min(rows, key=lambda x: safe_float(x.attr) or float('inf')).name
NameOfMin(rows, values, name) ==
    IF rows = <<>> THEN Raise("ValueError")
    ELSE rows[ArgMin(OrEach(values, Inf))][name]
\* max(valid) if valid else None, min(valid) if valid else None
MaxOrNone(valid) == IF valid = <<>> THEN None ELSE valid[ArgMax(valid)]
MinOrNone(valid) == IF valid = <<>> THEN None ELSE valid[ArgMin(valid)]

----------------------------------------------------------------------------
(* get_statistics: the aggregation over the fetched rows, per entity type. *)
(* Each operator yields the statistics added to stats, or the exception    *)
(* the block raises.                                                       *)

RelOf(route, key) ==
    LET rels == Relationships(route)
    IN  rels[CHOOSE i \in DOMAIN rels : rels[i].key = key]

\* row.<key> for a list relationship of a fetched row
Related(st, lk, route, obj, key) == RelatedList(st, lk, obj, RelOf(route, key))

\* [len(row.<key>) for row in rows]
Counts(st, lk, route, rows, key) ==
    [i \in DOMAIN rows |-> Len(Related(st, lk, route, rows[i], key))]

\* [x for row in rows for x in row.<key>]
RelatedAll(st, lk, route, rows, key) ==
    Flatten([i \in DOMAIN rows |-> Related(st, lk, route, rows[i], key)])

\* the related rows counted once per parent
UniqueIds_PerParent(related) == IntV(Len(related))

\* len(set(x.id for x in related))
UniqueIds(related) == IntV(Cardinality({related[i].id : i \in DOMAIN related}))

IntKeys(counts) == [i \in DOMAIN counts |-> Float(counts[i], 1)]

\* the statistics of one numeric attribute, values being the safe_float of each
\* row's attribute: the names and values of its extremes and its rounded average
Extremes(rows, values) ==
    [max_name |-> NameOfMax(rows, values, "name"),
     max_value |-> MaxOrNone(Valid(values)),
     min_name |-> NameOfMin(rows, values, "name"),
     min_value |-> MinOrNone(Valid(values)),
     average |-> RoundedAverage(Valid(values))]

\* f"{len(valid)}/{total_count} records"
Availability(valid, total_count) ==
    [present |-> Len(valid), total |-> total_count, suffix |-> " records"]

\* one entry of content_stats
ContentEntry(counts, related) ==
    [max_count |-> IntV(counts[ArgMax(IntKeys(counts))]),
     min_count |-> IntV(counts[ArgMin(IntKeys(counts))]),
     avg_count |-> Round2(Sum(IntKeys(counts)).num, Len(counts)),
     total_unique |-> UniqueIds(related)]

ContentStats(st, lk, films, key) ==
    ContentEntry(Counts(st, lk, "films", films, key), RelatedAll(st, lk, "films", films, key))

\* one entry of films_by_content, of starships' and vehicles' pilot_stats and
\* of species' population_stats: the label of the row with the most related rows
MostEntry(rows, counts, label) ==
    [name |-> rows[ArgMax(IntKeys(counts))][label],
     count |-> IntV(counts[ArgMax(IntKeys(counts))])]

MostContent(st, lk, films, key) ==
    MostEntry(films, Counts(st, lk, "films", films, key), "title")

EpisodeStats(valid_episodes) ==
    [total_episodes |-> IntV(Len(valid_episodes)),
     earliest_episode |-> MinOrNone(valid_episodes),
     latest_episode |-> MaxOrNone(valid_episodes)]

\* release_years as keys of min and max
ReleaseStats(years) ==
    [earliest_year |-> IF years = <<>> THEN None ELSE IntV(years[ArgMin(years)].num),
     latest_year |-> IF years = <<>> THEN None ELSE IntV(years[ArgMax(years)].num),
     years_span |-> IF years = <<>> THEN None
                    ELSE IntV(years[ArgMax(years)].num - years[ArgMin(years)].num)]

ProductionStats(directors, producers) ==
    [unique_directors |-> IntV(Cardinality(Range(directors))),
     directors |-> Range(directors),
     unique_producers |-> IntV(Cardinality(Range(producers))),
     producers |-> Range(producers)]

\* [row for row in rows if row.attr]
WithTruthy(rows, attr) == SelectSeq(rows, LAMBDA r : Truthy(r[attr]))

\* [row.attr for row in rows if row.attr]
TruthyValues(rows, attr) ==
    [i \in DOMAIN WithTruthy(rows, attr) |-> WithTruthy(rows, attr)[i][attr].v]

\* [int(film.release_date.split('-')[0]) for film in films if film.release_date]
ReleaseYears(release_dates) ==
    [i \in DOMAIN release_dates |-> PyInt(Split(release_dates[i], "-")[1])]

FilmsBlock(st, lk, films, release_years) ==
    IF \E i \in DOMAIN release_years : IsRaise(release_years[i]) THEN Raise("ValueError")
    ELSE IF films = <<>> THEN Raise("ValueError")
    ELSE
    [episode_stats |-> EpisodeStats(Valid(Floats(films, "episode_id"))),
     release_stats |->
        ReleaseStats(IntKeys([i \in DOMAIN release_years |-> release_years[i].v])),
     content_stats |->
        [characters |-> ContentStats(st, lk, films, "characters"),
         planets |-> ContentStats(st, lk, films, "planets"),
         species |-> ContentStats(st, lk, films, "species"),
         vehicles |-> ContentStats(st, lk, films, "vehicles"),
         starships |-> ContentStats(st, lk, films, "starships")],
     production_stats |->
        ProductionStats(TruthyValues(films, "director"), SplitTruthy(films, "producer")),
     films_by_content |->
        [most_characters |-> MostContent(st, lk, films, "characters"),
         most_planets |-> MostContent(st, lk, films, "planets"),
         most_species |-> MostContent(st, lk, films, "species"),
         most_vehicles |-> MostContent(st, lk, films, "vehicles"),
         most_starships |-> MostContent(st, lk, films, "starships")]]

StatsFilms(st, lk, films) ==
    FilmsBlock(st, lk, films, ReleaseYears(TruthyValues(films, "release_date")))

\* height_stats with every row counted as having a height
HeightStats_AllRows(people, heights, total_count) ==
    [tallest_person |-> [name |-> NameOfMax(people, heights, "name"),
                         height |-> MaxOrNone(Valid(heights))],
     shortest_person |-> [name |-> NameOfMin(people, heights, "name"),
                          height |-> MinOrNone(Valid(heights))],
     average_height |-> RoundedAverage(Valid(heights)),
     height_data_availability |-> Availability(heights, total_count)]

HeightStats(people, heights, total_count) ==
    [tallest_person |-> [name |-> NameOfMax(people, heights, "name"),
                         height |-> MaxOrNone(Valid(heights))],
     shortest_person |-> [name |-> NameOfMin(people, heights, "name"),
                          height |-> MinOrNone(Valid(heights))],
     average_height |-> RoundedAverage(Valid(heights)),
     height_data_availability |-> Availability(Valid(heights), total_count)]

MassStats(people, masses, total_count) ==
    [heaviest_person |-> [name |-> NameOfMax(people, masses, "name"),
                          mass |-> MaxOrNone(Valid(masses))],
     lightest_person |-> [name |-> NameOfMin(people, masses, "name"),
                          mass |-> MinOrNone(Valid(masses))],
     average_mass |-> RoundedAverage(Valid(masses)),
     mass_data_availability |-> Availability(Valid(masses), total_count)]

GenderStats(genders) ==
    [distribution |-> Distribution(genders), most_common |-> MostCommon(genders)]

StatsPeople(people, total_count) ==
    IF people = <<>> THEN Raise("ValueError")
    ELSE [height_stats |-> HeightStats(people, Floats(people, "height"), total_count),
          mass_stats |-> MassStats(people, Floats(people, "mass"), total_count),
          gender_stats |-> GenderStats(NotSentinel(people, "gender"))]

\* planet.attr.split(",") of a planet whose attr is None raises
SplitRaises(planets, attr) == \E i \in DOMAIN planets : ~IsStr(planets[i][attr])

\* [t.strip() for planet in planets for t in planet.attr.split(",")
\*  if planet.attr not in ["unknown", "n/a", "none", None, ""]]:
\* the split is evaluated before the condition
SplitThenFilter(planets, attr) ==
    Flatten([i \in DOMAIN planets |->
                IF InSentinelList(planets[i][attr]) THEN <<>>
                ELSE StripEach(Split(planets[i][attr].v, ","))])

EnvironmentStats(climates, terrains) ==
    [unique_climates |-> IntV(Cardinality(Range(climates))),
     most_common_climate |-> MostCommon(climates),
     unique_terrains |-> IntV(Cardinality(Range(terrains))),
     most_common_terrain |-> MostCommon(terrains)]

StatsPlanets(planets) ==
    IF SplitRaises(planets, "climate") \/ SplitRaises(planets, "terrain")
    THEN Raise("AttributeError")
    ELSE IF planets = <<>> THEN Raise("ValueError")
    ELSE [size_stats |-> Extremes(planets, Floats(planets, "diameter")),
          population_stats |-> Extremes(planets, Floats(planets, "population")),
          environment_stats |->
              EnvironmentStats(SplitThenFilter(planets, "climate"),
                               SplitThenFilter(planets, "terrain"))]

\* manufacturer_stats, class_stats, classification_stats
TokenStats(tokens) ==
    [unique |-> IntV(Cardinality(Range(tokens))),
     most_common |-> MostCommon(tokens),
     distribution |-> Distribution(tokens)]

\* pilot_stats
PilotStats(st, lk, route, rows) ==
    [most_pilots |-> MostEntry(rows, Counts(st, lk, route, rows, "pilots"), "name"),
     total_unique_pilots |-> UniqueIds(RelatedAll(st, lk, route, rows, "pilots"))]

StatsStarships(st, lk, starships) ==
    IF starships = <<>> THEN Raise("ValueError")
    ELSE
    [speed_stats |-> Extremes(starships, Floats(starships, "max_atmosphering_speed")),
     cargo_stats |-> Extremes(starships, Floats(starships, "cargo_capacity")),
     cost_stats |-> Extremes(starships, Floats(starships, "cost_in_credits")),
     size_stats |-> Extremes(starships, Floats(starships, "length")),
     crew_stats |-> Extremes(starships, Floats(starships, "crew")),
     passenger_stats |-> Extremes(starships, Floats(starships, "passengers")),
     performance_stats |->
        [hyperdrive |-> Extremes(starships, Floats(starships, "hyperdrive_rating")),
         MGLT |-> Extremes(starships, Floats(starships, "MGLT"))],
     manufacturer_stats |-> TokenStats(SplitTruthy(starships, "manufacturer")),
     class_stats |-> TokenStats(NotSentinel(starships, "starship_class")),
     pilot_stats |-> PilotStats(st, lk, "starships", starships)]

StatsVehicles(st, lk, vehicles) ==
    IF vehicles = <<>> THEN Raise("ValueError")
    ELSE
    [speed_stats |-> Extremes(vehicles, Floats(vehicles, "max_atmosphering_speed")),
     passenger_stats |-> Extremes(vehicles, Floats(vehicles, "passengers")),
     cost_stats |-> Extremes(vehicles, Floats(vehicles, "cost_in_credits")),
     size_stats |-> Extremes(vehicles, Floats(vehicles, "length")),
     crew_stats |-> Extremes(vehicles, Floats(vehicles, "crew")),
     manufacturer_stats |-> TokenStats(SplitTruthy(vehicles, "manufacturer")),
     class_stats |-> TokenStats(NotSentinel(vehicles, "vehicle_class")),
     pilot_stats |-> PilotStats(st, lk, "vehicles", vehicles)]

\* parse_colors(color_str)
parse_colors(color_str) ==
    IF ~Truthy(color_str) \/ InSentinelList(color_str) THEN <<>>
    ELSE StripEach(Split(color_str.v, ","))

\* [color for species in species_list for color in parse_colors(species.attr)]
AllColors(species_list, attr) ==
    Flatten([i \in DOMAIN species_list |-> parse_colors(species_list[i][attr])])

\* the appearance_stats entry of one colour attribute
ColorEntry(all_colors) ==
    [unique_colors |-> IntV(Cardinality(Range(all_colors))),
     most_common |-> MostCommon(all_colors),
     all_colors |-> Range(all_colors)]

ColorStats(species_list, attr) == ColorEntry(AllColors(species_list, attr))

DesignationStats(designations) ==
    [unique_designations |-> IntV(Cardinality(Range(designations))),
     distribution |-> Distribution(designations)]

LanguageStats(languages) ==
    [unique_languages |-> IntV(Cardinality(Range(languages))),
     most_common |-> MostCommon(languages),
     all_languages |-> Range(languages)]

\* species.homeworld of each species
Homeworlds(st, species_list) ==
    [i \in DOMAIN species_list |-> RelatedOne(st, species_list[i], RelOf("species", "homeworld"))]

\* the homeworld statistics with each name of the distribution counted once
HomeworldStats_Once(homeworlds, total_count) ==
    [species_with_homeworld |-> IntV(Len(homeworlds)),
     species_without_homeworld |-> IntV(total_count - Len(homeworlds)),
     homeworld_distribution |->
        [x \in Range([i \in DOMAIN homeworlds |-> homeworlds[i].name]) |-> IntV(1)]]

\* homeworlds: the homeworld of each species that has one
HomeworldStats(homeworlds, total_count) ==
    [species_with_homeworld |-> IntV(Len(homeworlds)),
     species_without_homeworld |-> IntV(total_count - Len(homeworlds)),
     homeworld_distribution |->
        Distribution([i \in DOMAIN homeworlds |-> homeworlds[i].name])]

PopulationStats(species_list, counts) ==
    [most_populated_species |-> MostEntry(species_list, counts, "name"),
     average_population |-> Round2(Sum(IntKeys(counts)).num, Len(counts))]

StatsSpecies(st, lk, species_list, total_count) ==
    IF species_list = <<>> THEN Raise("ValueError")
    ELSE
    [height_stats |-> Extremes(species_list, Floats(species_list, "average_height")),
     lifespan_stats |-> Extremes(species_list, Floats(species_list, "average_lifespan")),
     classification_stats |-> TokenStats(NotSentinel(species_list, "classification")),
     designation_stats |-> DesignationStats(NotSentinel(species_list, "designation")),
     appearance_stats |->
        [skin_colors |-> ColorStats(species_list, "skin_colors"),
         hair_colors |-> ColorStats(species_list, "hair_colors"),
         eye_colors |-> ColorStats(species_list, "eye_colors")],
     language_stats |-> LanguageStats(NotSentinel(species_list, "language")),
     homeworld_stats |-> HomeworldStats(Valid(Homeworlds(st, species_list)), total_count),
     population_stats |->
        PopulationStats(species_list, Counts(st, lk, "species", species_list, "people"))]

\* The model-specific statistics of the fetched rows
ModelStats(st, lk, route, rows, total_count) ==
    CASE route = "films" -> StatsFilms(st, lk, rows)
      [] route = "people" -> StatsPeople(rows, total_count)
      [] route = "planets" -> StatsPlanets(rows)
      [] route = "starships" -> StatsStarships(st, lk, rows)
      [] route = "vehicles" -> StatsVehicles(st, lk, rows)
      [] route = "species" -> StatsSpecies(st, lk, rows, total_count)

\* get_statistics up to its first read, total_count = db.query(model_class).count():
\* the response when it ends there, or the invocation suspended before its second read
Suspended(req, trace, total_count) ==
    [t |-> "suspended", req |-> req, trace |-> trace, total_count |-> total_count]

get_statistics_count(req, fault, st, lk, idn) ==
    LET route == req.route
        model_class == get_model_class(route)
        trace == get_db \o <<"count">>
    IN  IF model_class = "None" THEN InvalidRoute(st, lk, idn)
        ELSE IF fault = "query"
             THEN Out(Catch("SQLAlchemyError"), "SQLAlchemyError", trace, st, lk, idn)
        ELSE Suspended(req, trace, Len(st[route]))

\* stats.update(block) and the response, or the handler of the exception the
\* block raised
StatsResponse(block, total_count, trace, st, lk, idn) ==
    IF IsRaise(block) THEN Out(Catch(block.exc), block.exc, trace, st, lk, idn)
    ELSE Out(Resp(200, [total_count |-> IntV(total_count), model |-> block]),
             "none", trace, st, lk, idn)

\* get_statistics from its second read, db.query(model_class).all(), to its response
get_statistics_all(inv, fault, st, lk, idn) ==
    IF fault = "query"
    THEN Out(Catch("SQLAlchemyError"), "SQLAlchemyError", inv.trace \o <<"all">>, st, lk, idn)
    ELSE StatsResponse(ModelStats(st, lk, inv.req.route, st[inv.req.route], inv.total_count),
                       inv.total_count, inv.trace \o <<"all">>, st, lk, idn)

----------------------------------------------------------------------------
(* The specification of the function app: the host hands a request to its  *)
(* handler, the handler runs against the committed store and leaves its    *)
(* response in last, and the host takes the response.                      *)

Idle == [t |-> "idle"]

ch(c) == <<c>>
S_true == <<"T", "r", "u", "e">>

\* The display column of a table
Label(route) == IF route = "films" THEN "title" ELSE "name"

InvalidTokens == {"Films", "droids"}
RouteTokens == ValidRoutes \cup InvalidTokens
PathIds == {IntV(i) : i \in 1..MaxId}
IncParams == {None, Str(S_true), Str(ch("1"))}

\* Request bodies: no JSON, JSON null, and objects: a label; an Integer column
\* given as a number, as digits or as letters; a key that is no column.
Bodies(route) ==
    { Malformed, None,
      Dict(Label(route) :> Str(ch("a"))),
      Dict("id" :> Str(ch("a"))),
      Dict("foo" :> Str(ch("a"))) }
    \cup (IF route = "films"
          THEN {Dict("episode_id" :> IntV(4)), Dict("episode_id" :> Str(ch("4")))}
          ELSE {})
    \cup (IF route \in {"people", "species"}
          THEN {Dict("homeworld_id" :> IntV(1))}
          ELSE {})

\* PUT bodies that assign the identifier column a number
IdBodies == {Dict("id" :> id) : id \in PathIds}

\* The requests of each handler.  An unmapped route is requested once per
\* handler, since the handler returns before it reads anything else.
Reads(h, ids) ==
    {Request(h, r, id, inc, NoBody) : r \in ValidRoutes, id \in ids, inc \in IncParams}
    \cup {Request(h, r, id, None, NoBody) : r \in InvalidTokens, id \in ids}
Writes(h, ids) ==
    UNION {{Request(h, r, id, None, b) : id \in ids, b \in Bodies(r)} : r \in ValidRoutes}
    \cup {Request(h, r, id, None, b) : r \in InvalidTokens, id \in ids,
                                       b \in {Malformed, None, Dict("name" :> Str(ch("a")))}}

\* A store fault is explored with the plainest request of each handler and route.
Plain(req) ==
    /\ req.route \in ValidRoutes
    /\ req.inc = None
    /\ req.body \in {NoBody, Dict(Label(req.route) :> Str(ch("a")))}
MayFail(req, fault) == fault = "none" \/ Plain(req)

RECURSIVE SumOver(_, _)
SumOver(f, routes) ==
    IF routes = {} THEN 0
    ELSE LET r == CHOOSE r \in routes : TRUE IN f[r] + SumOver(f, routes \ {r})

\* The model explores the stores that MaxId inserts can build from no rows.
Within(o) == IF o.ident = ident THEN TRUE ELSE SumOver(o.ident, ValidRoutes) <= MaxId

Serve(req, o) ==
    /\ Within(o)
    /\ last' = [req |-> req, resp |-> o.resp, exc |-> o.exc, trace |-> o.trace]
    /\ store' = o.store
    /\ links' = o.links
    /\ ident' = o.ident
    /\ UNCHANGED <<pend, arg, out>>

Init ==
    /\ store = [r \in ValidRoutes |-> <<>>]
    /\ links = {}
    /\ ident = [r \in ValidRoutes |-> 0]
    /\ last = Idle
    /\ pend = Idle
    /\ arg = None
    /\ out = Pending

GetAll ==
    /\ last = Idle
    /\ \E req \in Reads("get_all", {None}), fault \in {"none", "query"} :
            /\ MayFail(req, fault)
            /\ Serve(req, get_all(req, fault, store, links, ident))

GetById ==
    /\ last = Idle
    /\ \E req \in Reads("get_by_id", PathIds), fault \in {"none", "query"} :
            /\ MayFail(req, fault)
            /\ Serve(req, get_by_id(req, fault, store, links, ident))

Create ==
    /\ last = Idle
    /\ \E req \in Writes("create", {None}), fault \in {"none", "commit", "refresh"} :
            /\ MayFail(req, fault)
            /\ Serve(req, create(req, fault, store, links, ident))

Update ==
    /\ last = Idle
    /\ \E req \in Writes("update", PathIds)
                  \cup {Request("update", r, id, None, b) :
                            r \in ValidRoutes, id \in PathIds, b \in IdBodies},
          fault \in Faults :
            /\ MayFail(req, fault)
            /\ Serve(req, update(req, fault, store, links, ident))

Delete ==
    /\ last = Idle
    /\ \E req \in Reads("delete", PathIds), fault \in {"none", "query", "commit"} :
            /\ req.inc = None
            /\ MayFail(req, fault)
            /\ Serve(req, delete(req, fault, store, links, ident))

\* get_statistics after its first read: the response of the first read, or the
\* second read and what follows it
AfterCount(inv, fault, st, lk, idn) ==
    IF inv.t = "suspended" THEN get_statistics_all(inv, fault, st, lk, idn) ELSE inv

\* get_statistics, its two reads one after the other
get_statistics(req, fault, st, lk, idn) ==
    AfterCount(get_statistics_count(req, IF fault = "count" THEN "query" ELSE "none",
                                    st, lk, idn),
               IF fault = "all" THEN "query" ELSE "none", st, lk, idn)

GetStatistics ==
    /\ last = Idle
    /\ \E req \in Reads("get_statistics", {None}), fault \in {"none", "count", "all"} :
            /\ req.inc = None
            /\ MayFail(req, fault)
            /\ Serve(req, get_statistics(req, fault, store, links, ident))

\* the host takes the response
Respond ==
    /\ last # Idle
    /\ last' = Idle
    /\ UNCHANGED <<store, links, ident, pend, arg, out>>

Next == GetAll \/ GetById \/ Create \/ Update \/ Delete \/ GetStatistics \/ Respond

Spec == Init /\ [][Next]_vars

----------------------------------------------------------------------------
(* The statistics specification: the tables as populate_db.py leaves them, *)
(* within the bounds, and get_statistics served in its two reads while     *)
(* other invocations commit.                                               *)

S_172 == <<"1", "7", "2">>
S_96 == <<"9", "6">>
S_77 == <<"7", "7">>
S_1358 == <<"1", ",", "3", "5", "8">>
S_ab == <<"a", ",", " ", "b">>
S_date == <<"1", "9", "7", "7", "-", "0", "5">>

\* The values of the fields the statistics read, per row profile; every other
\* column but the identifier and the label is None.
Profiles(route) ==
    CASE route = "people" ->
            { [height |-> Str(S_172), mass |-> Str(S_77), gender |-> Str(ch("m"))],
              [height |-> Str(S_unknown), mass |-> Str(S_1358), gender |-> Str(S_na)],
              [height |-> Str(S_96), mass |-> Str(S_unknown), gender |-> Str(ch("f"))],
              [height |-> Str(ch("0")), mass |-> None, gender |-> None] }
      [] route = "planets" ->
            { [diameter |-> Str(S_172), population |-> Str(S_1358),
               climate |-> Str(ch("a")), terrain |-> Str(S_ab)],
              [diameter |-> Str(S_unknown), population |-> Str(S_unknown),
               climate |-> Str(S_unknown), terrain |-> Str(ch("b"))],
              [diameter |-> Str(S_96), population |-> Str(ch("0")),
               climate |-> Str(S_ab), terrain |-> Str(S_empty)],
              [diameter |-> None, population |-> None, climate |-> None, terrain |-> None] }
      [] route = "starships" ->
            { [manufacturer |-> Str(S_ab), starship_class |-> Str(ch("c")),
               max_atmosphering_speed |-> Str(S_172), hyperdrive_rating |-> Str(<<"1", ".", "0">>)],
              [manufacturer |-> Str(S_unknown), starship_class |-> Str(S_unknown),
               max_atmosphering_speed |-> Str(S_na), hyperdrive_rating |-> Str(ch("2"))],
              [manufacturer |-> Str(ch("a")), starship_class |-> Str(ch("c")),
               max_atmosphering_speed |-> Str(S_172), hyperdrive_rating |-> None],
              [manufacturer |-> None, starship_class |-> None,
               max_atmosphering_speed |-> None, hyperdrive_rating |-> None] }
      [] route = "vehicles" ->
            { [manufacturer |-> Str(S_ab), vehicle_class |-> Str(ch("c")),
               max_atmosphering_speed |-> Str(S_172)],
              [manufacturer |-> Str(S_unknown), vehicle_class |-> Str(S_unknown),
               max_atmosphering_speed |-> Str(S_na)],
              [manufacturer |-> Str(S_empty), vehicle_class |-> Str(ch("d")),
               max_atmosphering_speed |-> Str(S_96)],
              [manufacturer |-> None, vehicle_class |-> None,
               max_atmosphering_speed |-> None] }
      [] route = "species" ->
            { [classification |-> Str(ch("c")), designation |-> Str(ch("d")),
               average_height |-> Str(S_172), skin_colors |-> Str(S_ab),
               language |-> Str(ch("l")), homeworld_id |-> IntV(1)],
              [classification |-> Str(S_unknown), designation |-> Str(S_na),
               average_height |-> Str(S_unknown), skin_colors |-> Str(S_unknown),
               language |-> Str(S_none), homeworld_id |-> None],
              [classification |-> Str(ch("c")), designation |-> Str(ch("e")),
               average_height |-> Str(S_96), skin_colors |-> Str(ch("a")),
               language |-> None, homeworld_id |-> IntV(1)],
              [classification |-> None, designation |-> None, average_height |-> None,
               skin_colors |-> None, language |-> None, homeworld_id |-> None] }
      [] route = "films" ->
            { [episode_id |-> IntV(4), release_date |-> Str(S_date),
               director |-> Str(ch("a")), producer |-> Str(S_ab)],
              [episode_id |-> IntV(5), release_date |-> Str(S_date),
               director |-> Str(ch("a")), producer |-> Str(ch("a"))],
              [episode_id |-> IntV(6), release_date |-> Str(ch("a")),
               director |-> None, producer |-> None],
              [episode_id |-> None, release_date |-> None,
               director |-> None, producer |-> None] }

\* The label of the row with identifier id: a letter and the identifier
LabelOf(id) == Str(<<"n", Digits[id + 1]>>)

Row(route, id, profile) ==
    [c \in Columns(route) |->
        IF c = "id" THEN IntV(id)
        ELSE IF c = Label(route) THEN LabelOf(id)
        ELSE IF c \in DOMAIN profile THEN profile[c]
        ELSE None]

EmptyProfile == [c \in {} |-> None]

\* The tables of up to MaxRows rows of one route
Tables(route) ==
    UNION {{[i \in 1..n |-> Row(route, i, ps[i])] : ps \in [1..n -> Profiles(route)]}
           : n \in 0..MaxRows}

\* The rows of the other tables: two people and a planet for the rows of the
\* route to refer to
Others ==
    [r \in ValidRoutes |->
        CASE r = "people" -> <<Row(r, 1, EmptyProfile), Row(r, 2, EmptyProfile)>>
          [] r = "planets" -> <<Row(r, 1, EmptyProfile)>>
          [] OTHER -> <<>>]

\* The association rows a table of the route may come with
LinkChoices(route) ==
    CASE route = "films" -> {<<"film_people", 1, 1>>, <<"film_people", 2, 1>>}
      [] route = "starships" -> {<<"person_starships", 1, 1>>, <<"person_starships", 1, 2>>}
      [] route = "vehicles" -> {<<"person_vehicles", 1, 1>>, <<"person_vehicles", 2, 1>>}
      [] route = "species" -> {<<"person_species", 1, 1>>, <<"person_species", 1, 2>>}
      [] OTHER -> {}

\* The association rows whose two ends are stored
Stored(st, route, lks) ==
    \A l \in lks :
        \E i \in DOMAIN Relationships(route) :
            LET rel == Relationships(route)[i]
            IN  /\ rel.table = l[1]
                /\ IntV(IF rel.side = "L" THEN l[2] ELSE l[3]) \in Ids(st, route)
                /\ IntV(IF rel.side = "L" THEN l[3] ELSE l[2]) \in Ids(st, rel.target)

InitStats ==
    /\ \E route \in ValidRoutes :
        /\ \E rows \in Tables(route) : store = [Others EXCEPT ![route] = rows]
        /\ links \in SUBSET LinkChoices(route)
        /\ Stored(store, route, links)
    /\ ident = [r \in ValidRoutes |-> Len(store[r])]
    /\ last = Idle
    /\ pend = Idle
    /\ arg = None
    /\ out = Pending

StatsRequest(route) == Request("get_statistics", route, None, None, NoBody)

\* The statistics are requested for the table the behaviour began with, or
\* for any table while none has rows of its own.
Touched(st) == {r \in ValidRoutes : st[r] # Others[r]}

\* the response of an invocation that ended
Ended(req, o) ==
    /\ last' = [req |-> req, resp |-> o.resp, exc |-> o.exc, trace |-> o.trace]
    /\ pend' = Idle
    /\ UNCHANGED <<store, links, ident, arg, out>>

\* the invocation after its first read
Counted(req, inv) ==
    IF inv.t = "suspended"
    THEN pend' = inv /\ UNCHANGED <<store, links, ident, last, arg, out>>
    ELSE Ended(req, inv)

\* get_statistics up to total_count = db.query(model_class).count()
StatCount ==
    /\ last = Idle
    /\ pend = Idle
    /\ \E route \in ValidRoutes \cup {"droids"}, fault \in {"none", "query"} :
            /\ Touched(store) \subseteq {route} \/ route \notin ValidRoutes
            /\ Counted(StatsRequest(route),
                       get_statistics_count(StatsRequest(route), fault, store, links, ident))

\* get_statistics from db.query(model_class).all() to its response
StatAll ==
    /\ pend # Idle
    /\ \E fault \in {"none", "query"} :
            Ended(pend.req, get_statistics_all(pend, fault, store, links, ident))

\* what another invocation commits
Commits(o) ==
    /\ o.ident[pend.req.route] <= MaxRows
    /\ <<store, links, ident>> # <<o.store, o.links, o.ident>>
    /\ store' = o.store
    /\ links' = o.links
    /\ ident' = o.ident
    /\ UNCHANGED <<last, pend, arg, out>>

\* Another invocation creates or deletes a row between the two reads of
\* get_statistics: a row of the route, or a row of another table while the
\* other tables are as they began; the model explores the first delete of a
\* behaviour in the table of the route.
WriteDuring ==
    /\ pend # Idle
    /\ pend.total_count = Len(store[pend.req.route])
    /\ ident[pend.req.route] = Len(store[pend.req.route])
    /\ \E route \in ValidRoutes :
          /\ route # pend.req.route =>
                \A r \in ValidRoutes \ {pend.req.route} : store[r] = Others[r]
          /\ \/ Commits(create(Request("create", route, None, None,
                                       Dict(Label(route) :> Str(ch("a")))),
                               "none", store, links, ident))
             \/ \E id \in Ids(store, route) :
                  Commits(delete(Request("delete", route, id, None, NoBody),
                                 "none", store, links, ident))

NextStats == StatCount \/ StatAll \/ WriteDuring \/ Respond

SpecStats == InitStats /\ [][NextStats]_vars

----------------------------------------------------------------------------
(* The documents specification: the tables as populate_db.py leaves them,  *)
(* within the bounds, read by GET /{route} and GET /{route}/{id}.          *)

NextDocs == GetAll \/ GetById \/ Respond

SpecDocs == InitStats /\ [][NextDocs]_vars

----------------------------------------------------------------------------
(* The ties specification: tables of TieRows rows of one type, so that rows *)
(* can share a value beside a row that has another, and their statistics.   *)

TieRows == 3

\* The tables of TieRows rows of one route
TieTables(route) ==
    {[i \in 1..TieRows |-> Row(route, i, ps[i])] : ps \in [1..TieRows -> Profiles(route)]}

InitTies ==
    /\ \E route \in ValidRoutes :
          \E rows \in TieTables(route) : store = [Others EXCEPT ![route] = rows]
    /\ links = {}
    /\ ident = [r \in ValidRoutes |-> Len(store[r])]
    /\ last = Idle
    /\ pend = Idle
    /\ arg = None
    /\ out = Pending

NextTies == StatCount \/ StatAll \/ Respond

SpecTies == InitTies /\ [][NextTies]_vars

----------------------------------------------------------------------------
(* The helper specification: safe_float applied to one raw field value.    *)

Chars == {"1", "2", "0", ",", ".", "-", " ", "a"}

RECURSIVE StringsOfLen(_)
StringsOfLen(n) ==
    IF n = 0 THEN {<<>>}
    ELSE {Append(s, c) : s \in StringsOfLen(n - 1), c \in Chars}

RawStrings == UNION {StringsOfLen(n) : n \in 0..MaxLen}

NamedStrings ==
    { S_unknown, S_na, S_none, S_empty,
      <<"U", "n", "k", "n", "o", "w", "n">>, <<"U", "N", "K", "N", "O", "W", "N">>,
      <<"N", "/", "A">>, <<"N", "o", "n", "e">>, <<"N", "O", "N", "E">>,
      <<"a", "b", "c">>, <<"1", ",", "2", "3", "4">>, <<"1", "7", "2">> }

FloatInputs == {None, IntV(4)} \cup {Str(s) : s \in RawStrings \cup NamedStrings}

InitHelper ==
    /\ arg \in FloatInputs
    /\ out = Pending
    /\ store = [r \in ValidRoutes |-> <<>>]
    /\ links = {}
    /\ ident = [r \in ValidRoutes |-> 0]
    /\ last = Idle
    /\ pend = Idle

CallSafeFloat ==
    /\ out = Pending
    /\ out' = safe_float(arg)
    /\ UNCHANGED <<store, links, ident, last, pend, arg>>

NextHelper == CallSafeFloat

SpecHelper == InitHelper /\ [][NextHelper]_vars

----------------------------------------------------------------------------
(* The claims.  last holds the request served last and its response until  *)
(* the host takes it; store is the committed store the request left.       *)

Served(h) == last # Idle /\ last.req.handler = h
OnValidRoute == last.req.route \in ValidRoutes
HasRow(route, id) == \E i \in DOMAIN store[route] : store[route][i].id = id

\* C1: on a valid route whose table holds no row, GET /statistics/{route}
\* answers 200 with total_count 0 whenever the store itself does not fail; it
\* never answers 500 because an extremum of no rows was taken.
C1_EmptyStatistics ==
    (/\ Served("get_statistics")
     /\ OnValidRoute
     /\ store[last.req.route] = <<>>
     /\ last.exc # "SQLAlchemyError")
    => /\ last.resp.status = 200
       /\ last.resp.body.total_count = IntV(0)

\* C2: a request whose route token is none of the six known ones is answered
\* 404 {"error": "Invalid route"} by every handler, whatever its id and body.
C2_InvalidRoute ==
    (last # Idle /\ ~OnValidRoute)
    => last.resp = Resp(404, ErrorDoc("Invalid route"))

\* C2, witnessed: update was served on the token "Films" with a body that is no JSON
C2_Witness ==
    /\ Served("update")
    /\ last.req.route = "Films"
    /\ last.req.body = Malformed
    /\ last.resp.status = 404

\* C3: on a valid route and with the store answering, GET /{route}/{id} answers
\* 404 {"error": "Not found"} when no stored row has the id, and 200 with a
\* document whose id is the requested id when a stored row has it.
C3_GetById ==
    (Served("get_by_id") /\ OnValidRoute /\ last.exc = "none")
    => IF HasRow(last.req.route, last.req.id)
       THEN /\ last.resp.status = 200
            /\ last.resp.body.t = "dict"
            /\ last.resp.body.v["id"] = last.req.id
       ELSE last.resp = Resp(404, ErrorDoc("Not found"))

\* C3, witnessed: the second row of a table was read by its id
C3_Witness ==
    /\ Served("get_by_id")
    /\ last.req.id = IntV(2)
    /\ last.resp.status = 200
    /\ last.resp.body.v["id"] = IntV(2)

\* The response to GET /{route}/{id}, for the id of the document a create
\* returned, asked of the store the create left
ReadBack ==
    get_by_id(Request("get_by_id", last.req.route, last.resp.body.v["id"], None, NoBody),
              "none", store, links, ident).resp

Created == Served("create") /\ last.resp.status = 201

\* C4 as stated: after a POST answered 201, GET by the returned id answers 200
\* with a document whose fields equal the submitted values.
C4_RoundTrip ==
    Created =>
        /\ ReadBack.status = 200
        /\ \A k \in DOMAIN last.req.body.v : ReadBack.body.v[k] = last.req.body.v[k]

\* The declared type of a column holds the value
OfColumnType(column, value) ==
    value = None \/ value.t = (IF column \in IntegerColumns THEN "int" ELSE "str")

\* C4, amended: after a POST answered 201, GET by the returned id answers 200
\* with a document whose fields equal the submitted values as the columns
\* store them: a value of the column's declared type unchanged, a digit string
\* submitted to an Integer column as the integer.
C4_RoundTripTyped ==
    Created =>
        /\ ReadBack.status = 200
        /\ \A k \in DOMAIN last.req.body.v :
              /\ OfColumnType(k, last.req.body.v[k]) => ReadBack.body.v[k] = last.req.body.v[k]
              /\ (k \in IntegerColumns /\ IsStr(last.req.body.v[k]))
                 => /\ AllDigits(Strip(last.req.body.v[k].v))
                    /\ ReadBack.body.v[k] = IntV(DigitsValue(Strip(last.req.body.v[k].v)))

\* C4, witnessed: a film was created with episode_id "4" and reads back with 4
C4_Witness ==
    /\ Created
    /\ last.req.body.v = ("episode_id" :> Str(ch("4")))
    /\ ReadBack.status = 200
    /\ ReadBack.body.v["episode_id"] = IntV(4)

SentinelTokens == {S_unknown, S_na, S_none, S_empty}
HasLetter(s) == \E i \in DOMAIN s : LowerChar(s[i]) \in {LowerCase[j] : j \in DOMAIN LowerCase}
DigitsAndCommas(s) ==
    /\ \A i \in DOMAIN s : IsDigit(s[i]) \/ s[i] = ","
    /\ \E i \in DOMAIN s : IsDigit(s[i])

\* C5: safe_float never raises; it yields None for null, for every sentinel
\* token in any letter case and for every text that is no number (one holding
\* a letter, as "abc"); for any other input it yields the number, commas
\* removed: "1,234" gives 1234.0, and the integer a column holds gives itself.
C5_SafeFloat ==
    out # Pending =>
        /\ out.t \in {"none", "float"}
        /\ arg = None => out = None
        /\ (IsStr(arg) /\ Lower(arg.v) \in SentinelTokens) => out = None
        /\ (IsStr(arg) /\ HasLetter(arg.v)) => out = None
        /\ (IsStr(arg) /\ DigitsAndCommas(arg.v)) =>
               out = Float(DigitsValue(SelectSeq(arg.v, IsDigit)), 1)
        /\ arg = Str(<<"1", ",", "2", "3", "4">>) => out = Float(1234, 1)
        /\ arg.t = "int" => out = Float(arg.v, 1)

\* A people statistics response, and the heights of the rows it was computed from
PeopleStats == Served("get_statistics") /\ last.req.route = "people" /\ last.resp.status = 200
Heights == [i \in DOMAIN store["people"] |-> store["people"][i].height]
ValidHeights == Valid(Floats(store["people"], "height"))

Abs(n) == IF n < 0 THEN -n ELSE n

\* avg is the quotient total / n
IsMean(avg, total, n) == avg.num * total.den * n = total.num * avg.den

\* avg has two decimals and is no further from total / n than half a hundredth
IsRoundedMean(avg, total, n) ==
    /\ 100 % avg.den = 0
    /\ 200 * Abs(avg.num * total.den * n - total.num * avg.den) <= avg.den * total.den * n

\* C6 as stated: average_height is the mean of the heights that sanitize to a
\* number, and the height data availability is the string "<present>/<total_count>";
\* heights "172" and "unknown" give 172.0 and "1/2".
C6_HeightStats ==
    PeopleStats =>
        /\ last.resp.body.model.height_stats.height_data_availability
              = [present |-> Len(ValidHeights), total |-> last.resp.body.total_count.v,
                 suffix |-> ""]
        /\ ValidHeights # <<>> =>
              IsMean(last.resp.body.model.height_stats.average_height,
                     Sum(ValidHeights), Len(ValidHeights))

\* C6, amended: average_height is the mean of the heights that sanitize to a
\* number, rounded to two decimals (None when there is none), and the height
\* data availability is the string "<present>/<total_count> records"; heights
\* "172" and "unknown" give 172.0 and "1/2 records".
C6_HeightStatsRecords ==
    PeopleStats =>
        /\ last.resp.body.model.height_stats.height_data_availability
              = [present |-> Len(ValidHeights), total |-> last.resp.body.total_count.v,
                 suffix |-> " records"]
        /\ IF ValidHeights = <<>>
           THEN last.resp.body.model.height_stats.average_height = None
           ELSE IsRoundedMean(last.resp.body.model.height_stats.average_height,
                              Sum(ValidHeights), Len(ValidHeights))
        /\ (Heights = <<Str(S_172), Str(S_unknown)>> /\ last.resp.body.total_count = IntV(2))
           => /\ last.resp.body.model.height_stats.average_height = Float(172, 1)
              /\ last.resp.body.model.height_stats.height_data_availability
                    = [present |-> 1, total |-> 2, suffix |-> " records"]

\* C6, witnessed: the statistics of two people with heights "172" and "unknown"
C6_Witness ==
    /\ PeopleStats
    /\ Heights = <<Str(S_172), Str(S_unknown)>>
    /\ last.resp.body.total_count = IntV(2)
    /\ last.resp.body.model.height_stats.average_height = Float(172, 1)

RECURSIVE SumCounts(_, _)
SumCounts(distribution, keys) ==
    IF keys = {} THEN 0
    ELSE LET k == CHOOSE k \in keys : TRUE
         IN  distribution[k].v + SumCounts(distribution, keys \ {k})

\* The sum of the per-value counts of a distribution
DistributionSum(distribution) == SumCounts(distribution, DOMAIN distribution)

\* The tokens of a field value that are present: no token of an absent value,
\* and of a text its comma-separated pieces, trimmed, that are no sentinel
PresentTokens(value) ==
    IF value = None THEN {}
    ELSE {k \in DOMAIN Split(value.v, ",") : Strip(Split(value.v, ",")[k]) \notin SentinelTokens}

RECURSIVE TokenCount(_, _)
TokenCount(rows, attr) ==
    IF rows = <<>> THEN 0
    ELSE Cardinality(PresentTokens(Head(rows)[attr])) + TokenCount(Tail(rows), attr)

StatsOf(route) == Served("get_statistics") /\ last.req.route = route /\ last.resp.status = 200

\* C7: in every statistics response, the counts of each categorical
\* distribution (gender, manufacturer, starship_class, vehicle_class,
\* classification, designation) sum to the number of present tokens of that
\* field over the rows: each comma-separated token counts, a sentinel or
\* absent value counts as no token.
C7_DistributionSums ==
    /\ StatsOf("people") =>
          DistributionSum(last.resp.body.model.gender_stats.distribution)
              = TokenCount(store["people"], "gender")
    /\ StatsOf("starships") =>
          /\ DistributionSum(last.resp.body.model.manufacturer_stats.distribution)
                = TokenCount(store["starships"], "manufacturer")
          /\ DistributionSum(last.resp.body.model.class_stats.distribution)
                = TokenCount(store["starships"], "starship_class")
    /\ StatsOf("vehicles") =>
          /\ DistributionSum(last.resp.body.model.manufacturer_stats.distribution)
                = TokenCount(store["vehicles"], "manufacturer")
          /\ DistributionSum(last.resp.body.model.class_stats.distribution)
                = TokenCount(store["vehicles"], "vehicle_class")
    /\ StatsOf("species") =>
          /\ DistributionSum(last.resp.body.model.classification_stats.distribution)
                = TokenCount(store["species"], "classification")
          /\ DistributionSum(last.resp.body.model.designation_stats.distribution)
                = TokenCount(store["species"], "designation")

\* The session events that are store operations
StoreOps == {"execute", "query", "count", "all", "add", "delete", "commit", "refresh"}

\* C8: a handler that acquired a session closes it after its last store
\* operation, on every exit path: the session events of a served request end
\* with the close, and no store operation follows a close.
C8_SessionClosed ==
    (last # Idle /\ last.trace # <<>>)
    => /\ last.trace[Len(last.trace)] = "close"
       /\ \A i, j \in DOMAIN last.trace :
              (last.trace[i] = "close" /\ i < j) => last.trace[j] \notin StoreOps

\* C9: every request is answered with a response; one served with an exception
\* (a store failure, a malformed or null body, an unknown field name, a value
\* its column cannot hold) is answered 400 or 500, and every response that is
\* no success carries a JSON object with an "error" key and status 400, 404 or 500.
C9_ErrorDocuments ==
    last # Idle =>
        /\ last.resp.status \in {200, 201, 204, 400, 404, 500}
        /\ last.exc # "none" => last.resp.status \in {400, 500}
        /\ last.resp.status \in {400, 404, 500} => "error" \in DOMAIN last.resp.body

\* C9, witnessed: create was served a body that is no JSON and answered 500
C9_Witness ==
    /\ Served("create")
    /\ last.req.body = Malformed
    /\ last.exc = "ValueError"
    /\ last.resp.status = 500
    /\ "error" \in DOMAIN last.resp.body

ClassifyingHandlers == {"create", "update", "delete", "get_statistics"}

\* C10: in create, update, delete and get_statistics an error of the store is
\* answered 400 {"error": "Database error", "details": <store text>} and every
\* other exception 500 with its message, never the one for the other.
C10_ErrorClasses ==
    (last # Idle /\ last.req.handler \in ClassifyingHandlers)
    => /\ last.exc = "SQLAlchemyError" => last.resp = Resp(400, DbErrorDoc)
       /\ last.exc \notin {"none", "SQLAlchemyError"}
             => last.resp = Resp(500, ErrorDoc(last.exc))
       /\ last.resp.status = 400 => last.exc = "SQLAlchemyError"
       /\ last.resp.status = 500 => last.exc \notin {"none", "SQLAlchemyError"}

\* C10, witnessed: a commit of update failed in the store and was answered 400
C10_Witness ==
    /\ Served("update")
    /\ last.exc = "SQLAlchemyError"
    /\ last.trace[Len(last.trace)] = "commit"
    /\ last.resp = Resp(400, DbErrorDoc)

\* The store operations among the session events, in order
Operations(trace) == SelectSeq(trace, LAMBDA e : e \in StoreOps)

\* C11: a POST on a valid route that is answered 201 made add, commit and
\* refresh, in this order and each once; the table of the route then holds the
\* rows it held and one more, the other tables are as they were, and the body
\* is the document of the new row.
C11_CreateOnce ==
    [][(last' # Idle /\ last'.req.handler = "create" /\ last'.resp.status = 201)
       => /\ last'.req.route \in ValidRoutes
          /\ Operations(last'.trace) = <<"add", "commit", "refresh">>
          /\ Len(store'[last'.req.route]) = Len(store[last'.req.route]) + 1
          /\ SubSeq(store'[last'.req.route], 1, Len(store[last'.req.route]))
                = store[last'.req.route]
          /\ \A r \in ValidRoutes \ {last'.req.route} : store'[r] = store[r]
          /\ last'.resp.body
                = Dict(to_dict(store', links', last'.req.route,
                               store'[last'.req.route][Len(store'[last'.req.route])], FALSE))
      ]_vars

\* C11, witnessed: a second row was created in a table and answered 201
C11_Witness ==
    /\ Created
    /\ Len(store[last.req.route]) = 2
    /\ Operations(last.trace) = <<"add", "commit", "refresh">>
    /\ last.resp.body.v["id"] = IntV(2)

\* The request served by this step is one of handler h on a valid route
Serving(h) ==
    /\ last' # Idle
    /\ last'.req.handler = h
    /\ last'.req.route \in ValidRoutes

\* The other tables are as they were
OthersKept(route) == \A r \in ValidRoutes \ {route} : store'[r] = store[r]

\* C12: a PUT on a valid route served without an exception: when a stored row
\* has the id, every assignment of the body to a column is applied to that row
\* as the column stores it and to no other row, query, commit and refresh are
\* made once each, and the answer is 200 with the document of the updated row;
\* when no row has the id, the answer is 404 Not found, no commit is made and
\* the store is unchanged.
C12_Update ==
    [][(Serving("update") /\ last'.exc = "none")
       => LET route == last'.req.route
              id == last'.req.id
              data == last'.req.body
          IN  IF Find(store, route, id) # None
              THEN /\ last'.resp.status = 200
                   /\ Operations(last'.trace) = <<"query", "commit", "refresh">>
                   /\ data.t = "dict"
                   /\ DOMAIN store'[route] = DOMAIN store[route]
                   /\ \A i \in DOMAIN store[route] :
                         IF store[route][i].id = id
                         THEN \A c \in Columns(route) :
                                 store'[route][i][c]
                                    = IF c \in DOMAIN data.v THEN Coerce(c, data.v[c])
                                      ELSE store[route][i][c]
                         ELSE store'[route][i] = store[route][i]
                   /\ OthersKept(route)
                   /\ last'.resp.body
                         = Dict(to_dict(store', links', route, Find(store', route, id), FALSE))
              ELSE /\ last'.resp = Resp(404, ErrorDoc("Not found"))
                   /\ Operations(last'.trace) = <<"query">>
                   /\ store' = store
      ]_vars

\* C12, witnessed: the label of the second row of a table was updated
C12_Witness ==
    /\ Served("update")
    /\ last.resp.status = 200
    /\ last.req.id = IntV(2)
    /\ last.req.body = Dict(Label(last.req.route) :> Str(ch("a")))
    /\ Find(store, last.req.route, IntV(2))[Label(last.req.route)] = Str(ch("a"))
    /\ Find(store, last.req.route, IntV(1))[Label(last.req.route)] = None

\* C13: a DELETE on a valid route whose query the store answers: when a stored
\* row has the id, delete is made once for that row and then commit once, and,
\* the commit succeeding, the answer is 204 with no body and the table holds
\* the other rows as they were; when no row has the id, the answer is 404
\* Not found and neither delete nor commit is made.
C13_Delete ==
    [][(Serving("delete") /\ Operations(last'.trace) # <<>>
           /\ ~(last'.exc # "none" /\ Operations(last'.trace) = <<"query">>))
       => LET route == last'.req.route
              id == last'.req.id
          IN  IF Find(store, route, id) # None
              THEN /\ Operations(last'.trace) = <<"query", "delete", "commit">>
                   /\ last'.exc = "none" =>
                         /\ last'.resp = Resp(204, NoBody)
                         /\ store'[route] = SelectSeq(store[route], LAMBDA r : r.id # id)
                         /\ Len(store'[route]) = Len(store[route]) - 1
              ELSE /\ last'.resp = Resp(404, ErrorDoc("Not found"))
                   /\ Operations(last'.trace) = <<"query">>
                   /\ store' = store
      ]_vars

\* C13, witnessed: the first of two rows of a table was deleted
C13_Witness ==
    /\ Served("delete")
    /\ last.resp = Resp(204, NoBody)
    /\ last.req.id = IntV(1)
    /\ Len(store[last.req.route]) = 1
    /\ store[last.req.route][1].id = IntV(2)
    /\ Operations(last.trace) = <<"query", "delete", "commit">>

\* C14: on a valid route and with the store answering, GET /{route} answers
\* 200 with an array of one document per stored row of the route, in the order
\* of the rows and with the columns of its row (the empty array when the table
\* holds none), read by one statement.
C14_GetAll ==
    (Served("get_all") /\ OnValidRoute /\ last.exc = "none")
    => /\ last.resp.status = 200
       /\ last.resp.body.t = "list"
       /\ Len(last.resp.body.v) = Len(store[last.req.route])
       /\ \A i \in DOMAIN store[last.req.route] :
             /\ last.resp.body.v[i].t = "dict"
             /\ \A c \in Columns(last.req.route) :
                   last.resp.body.v[i].v[c] = store[last.req.route][i][c]
       /\ Operations(last.trace) = <<"execute">>

\* C14, witnessed: the two rows of a table were listed
C14_Witness ==
    /\ Served("get_all")
    /\ last.resp.status = 200
    /\ Len(store[last.req.route]) = 2
    /\ Len(last.resp.body.v) = 2
    /\ last.resp.body.v[2].v["id"] = IntV(2)

\* The texts that are "true" in some letter case
TrueTexts ==
    {<<a, b, c, d>> : a \in {"t", "T"}, b \in {"r", "R"}, c \in {"u", "U"}, d \in {"e", "E"}}

IsDocument(x) == x.t = "dict"
IsDocumentList(x) == x.t = "list" /\ \A i \in DOMAIN x.v : x.v[i].t = "dict"
IsIdList(x) == x.t = "list" /\ \A i \in DOMAIN x.v : x.v[i].t = "int"

\* The documents of a 200 answer of GET /{route} or GET /{route}/{id}
Documents ==
    IF last.req.handler = "get_all" THEN {last.resp.body.v[i] : i \in DOMAIN last.resp.body.v}
    ELSE {last.resp.body}

\* C15: in a 200 answer of GET /{route} or GET /{route}/{id}, when the
\* include_relationships parameter is "true" in some letter case, each document
\* has under every list relationship's name the list of the related documents
\* and no "<name>_ids", and under the name of its homeworld, when it has one,
\* the document of it; for every other value and without the parameter, it has
\* "<name>_ids" with identifiers for every list relationship, no key that is a
\* relationship's name, and no nested document at all.
C15_Relationships ==
    (last # Idle /\ last.req.handler \in {"get_all", "get_by_id"} /\ last.resp.status = 200)
    => \A d \in Documents :
          /\ \A i \in DOMAIN Relationships(last.req.route) :
                LET rel == Relationships(last.req.route)[i]
                IN  IF last.req.inc # None /\ last.req.inc.v \in TrueTexts
                    THEN IF IsListRel(rel)
                         THEN /\ rel.key \in DOMAIN d.v
                              /\ IsDocumentList(d.v[rel.key])
                              /\ (rel.key \o "_ids") \notin DOMAIN d.v
                         ELSE IF d.v["homeworld_id"] # None
                              THEN rel.key \in DOMAIN d.v /\ IsDocument(d.v[rel.key])
                              ELSE rel.key \notin DOMAIN d.v
                    ELSE /\ rel.key \notin DOMAIN d.v
                         /\ IsListRel(rel) =>
                               /\ (rel.key \o "_ids") \in DOMAIN d.v
                               /\ IsIdList(d.v[rel.key \o "_ids"])
          /\ ~(last.req.inc # None /\ last.req.inc.v \in TrueTexts)
                => \A k \in DOMAIN d.v :
                      /\ ~IsDocument(d.v[k])
                      /\ d.v[k].t = "list" => IsIdList(d.v[k])

\* C15, witnessed: the films were listed with include_relationships=True and
\* the first carries the document of its character
C15_Witness ==
    /\ Served("get_all")
    /\ last.req.route = "films"
    /\ last.req.inc = Str(S_true)
    /\ last.resp.status = 200
    /\ Len(last.resp.body.v) >= 1
    /\ Len(last.resp.body.v[1].v["characters"].v) >= 1
    /\ last.resp.body.v[1].v["characters"].v[1].v["id"] = IntV(1)

\* When a value is reported, the name reported with it is the name of a row
\* whose attribute sanitizes to that value
NamesOwner(rows, attr, name, value) ==
    value # None =>
        \E i \in DOMAIN rows : rows[i].name = name /\ safe_float(rows[i][attr]) = value

OwnersOf(rows, attr, ex) ==
    /\ NamesOwner(rows, attr, ex.max_name, ex.max_value)
    /\ NamesOwner(rows, attr, ex.min_name, ex.min_value)

\* C16: in every statistics response and for every numeric extremum (tallest
\* and shortest, heaviest and lightest person; the extrema of planets,
\* starships, vehicles and species), a reported value that is not null comes
\* with the name of a row whose sanitized value of that attribute is the
\* reported value, also when other rows have no value and when a value is 0
\* or negative.
C16_ExtremumNames ==
    /\ StatsOf("people") =>
          LET m == last.resp.body.model
              rows == store["people"]
          IN  /\ NamesOwner(rows, "height", m.height_stats.tallest_person.name,
                            m.height_stats.tallest_person.height)
              /\ NamesOwner(rows, "height", m.height_stats.shortest_person.name,
                            m.height_stats.shortest_person.height)
              /\ NamesOwner(rows, "mass", m.mass_stats.heaviest_person.name,
                            m.mass_stats.heaviest_person.mass)
              /\ NamesOwner(rows, "mass", m.mass_stats.lightest_person.name,
                            m.mass_stats.lightest_person.mass)
    /\ StatsOf("planets") =>
          /\ OwnersOf(store["planets"], "diameter", last.resp.body.model.size_stats)
          /\ OwnersOf(store["planets"], "population", last.resp.body.model.population_stats)
    /\ StatsOf("starships") =>
          LET m == last.resp.body.model
              rows == store["starships"]
          IN  /\ OwnersOf(rows, "max_atmosphering_speed", m.speed_stats)
              /\ OwnersOf(rows, "cargo_capacity", m.cargo_stats)
              /\ OwnersOf(rows, "cost_in_credits", m.cost_stats)
              /\ OwnersOf(rows, "length", m.size_stats)
              /\ OwnersOf(rows, "crew", m.crew_stats)
              /\ OwnersOf(rows, "passengers", m.passenger_stats)
              /\ OwnersOf(rows, "hyperdrive_rating", m.performance_stats.hyperdrive)
              /\ OwnersOf(rows, "MGLT", m.performance_stats.MGLT)
    /\ StatsOf("vehicles") =>
          LET m == last.resp.body.model
              rows == store["vehicles"]
          IN  /\ OwnersOf(rows, "max_atmosphering_speed", m.speed_stats)
              /\ OwnersOf(rows, "passengers", m.passenger_stats)
              /\ OwnersOf(rows, "cost_in_credits", m.cost_stats)
              /\ OwnersOf(rows, "length", m.size_stats)
              /\ OwnersOf(rows, "crew", m.crew_stats)
    /\ StatsOf("species") =>
          /\ OwnersOf(store["species"], "average_height", last.resp.body.model.height_stats)
          /\ OwnersOf(store["species"], "average_lifespan", last.resp.body.model.lifespan_stats)

\* The value is null or one of the sentinel tokens
Absent(value) == value = None \/ (IsStr(value) /\ value.v \in SentinelTokens)

\* The table has rows and the attribute is absent in every one
AllAbsent(route, attr) ==
    /\ store[route] # <<>>
    /\ \A i \in DOMAIN store[route] : Absent(store[route][i][attr])

\* The statistics of the route were served and the store answered
Answered(route) ==
    /\ Served("get_statistics")
    /\ last.req.route = route
    /\ last.exc # "SQLAlchemyError"

\* C17: when a table has rows and an attribute its statistics read is null or
\* a sentinel in every row, GET /statistics/{route} answers 200 with that
\* attribute's statistics None or empty, not an error: so for planets whose
\* climate or terrain is null in all rows and for people whose heights are all
\* "unknown".
C17_AbsentAttributes ==
    /\ (Answered("planets") /\ AllAbsent("planets", "climate")) =>
          /\ last.resp.status = 200
          /\ last.resp.body.model.environment_stats.unique_climates = IntV(0)
          /\ last.resp.body.model.environment_stats.most_common_climate = None
    /\ (Answered("planets") /\ AllAbsent("planets", "terrain")) =>
          /\ last.resp.status = 200
          /\ last.resp.body.model.environment_stats.unique_terrains = IntV(0)
          /\ last.resp.body.model.environment_stats.most_common_terrain = None
    /\ (Answered("planets") /\ AllAbsent("planets", "diameter")) =>
          /\ last.resp.status = 200
          /\ last.resp.body.model.size_stats.max_value = None
          /\ last.resp.body.model.size_stats.average = None
    /\ (Answered("people") /\ AllAbsent("people", "height")) =>
          /\ last.resp.status = 200
          /\ last.resp.body.model.height_stats.tallest_person.height = None
          /\ last.resp.body.model.height_stats.shortest_person.height = None
          /\ last.resp.body.model.height_stats.average_height = None
    /\ (Answered("people") /\ AllAbsent("people", "gender")) =>
          /\ last.resp.status = 200
          /\ DOMAIN last.resp.body.model.gender_stats.distribution = {}
          /\ last.resp.body.model.gender_stats.most_common = None
    /\ (Answered("films") /\ AllAbsent("films", "release_date")) =>
          /\ last.resp.status = 200
          /\ last.resp.body.model.release_stats.earliest_year = None
    /\ (Answered("starships") /\ AllAbsent("starships", "starship_class")) =>
          /\ last.resp.status = 200
          /\ last.resp.body.model.class_stats.most_common = None
    /\ (Answered("species") /\ AllAbsent("species", "language")) =>
          /\ last.resp.status = 200
          /\ last.resp.body.model.language_stats.most_common = None

\* The store operations of each handler, in the order of its statements
Statements(h) ==
    CASE h = "get_all" -> <<"execute">>
      [] h = "get_by_id" -> <<"execute">>
      [] h = "create" -> <<"add", "commit", "refresh">>
      [] h = "update" -> <<"query", "commit", "refresh">>
      [] h = "delete" -> <<"query", "delete", "commit">>
      [] h = "get_statistics" -> <<"count", "all">>

IsPrefix(s, t) == Len(s) <= Len(t) /\ s = SubSeq(t, 1, Len(s))

\* C18: the store operations of a served request are the statements of its
\* handler up to the one that ended it, each made once: none is made again
\* after a failure, no request commits twice, and the read handlers and every
\* request answered 404 do not commit.
C18_NoRetry ==
    last # Idle =>
        /\ IsPrefix(Operations(last.trace), Statements(last.req.handler))
        /\ \A op \in StoreOps :
              Cardinality({i \in DOMAIN last.trace : last.trace[i] = op}) <= 1
        /\ last.exc = "SQLAlchemyError" => Operations(last.trace) # <<>>
        /\ last.req.handler \in {"get_all", "get_by_id", "get_statistics"}
              => \A i \in DOMAIN last.trace : last.trace[i] # "commit"
        /\ last.resp.status = 404
              => \A i \in DOMAIN last.trace : last.trace[i] # "commit"

\* C18, witnessed: the commit of a delete failed and was answered 400 after
\* query, delete and the one commit
C18_Witness ==
    /\ Served("delete")
    /\ last.exc = "SQLAlchemyError"
    /\ last.resp.status = 400
    /\ Operations(last.trace) = <<"query", "delete", "commit">>

\* The session events of an invocation begin with the making of its session,
\* and it makes no other
OwnSession(trace) ==
    trace = <<>> \/ (trace[1] = "SessionLocal" /\ \A i \in 2..Len(trace) : trace[i] # "SessionLocal")

\* The tables the statistics of a route read: its own and those its
\* relationships lead to
TablesRead(route) ==
    CASE route = "films" -> ValidRoutes
      [] route = "starships" -> {"starships", "people"}
      [] route = "vehicles" -> {"vehicles", "people"}
      [] route = "species" -> {"species", "people", "planets"}
      [] OTHER -> {route}

\* The association rows of the relationships of a route
LinksRead(route, lk) ==
    {l \in lk : \E i \in DOMAIN Relationships(route) : Relationships(route)[i].table = l[1]}

\* This step wrote no row that the statistics of the route read
Untouched(route) ==
    /\ \A r \in TablesRead(route) : store'[r] = store[r]
    /\ LinksRead(route, links') = LinksRead(route, links)

\* C19: served while other invocations commit, an invocation works on the
\* session it made itself, the first of its session events, and on no other;
\* and a commit of another invocation that writes no row it reads leaves the
\* response of a pending get_statistics what it was going to be, so that its
\* response is the one it gives when served alone.
C19_Independent ==
    /\ [](/\ pend # Idle => (pend.trace # <<>> /\ OwnSession(pend.trace))
          /\ last # Idle => OwnSession(last.trace))
    /\ [][(pend # Idle /\ pend' = pend /\ Untouched(pend.req.route))
          => get_statistics_all(pend, "none", store', links', ident').resp
                = get_statistics_all(pend, "none", store, links, ident).resp
         ]_vars

\* C19, witnessed: the statistics of the starships were answered 200 after
\* another invocation had created a film between their two reads
C19_Witness ==
    /\ StatsOf("starships")
    /\ store["starships"] # <<>>
    /\ Len(store["films"]) = 1
    /\ OwnSession(last.trace)
    /\ Operations(last.trace) = <<"count", "all">>

\* The rows whose attribute sanitizes to the value
Sharing(rows, attr, value) == {i \in DOMAIN rows : safe_float(rows[i][attr]) = value}

\* When several rows share the reported value, the name is that of the first
NamesFirst(rows, attr, name, value) ==
    (value # None /\ Cardinality(Sharing(rows, attr, value)) >= 2) =>
        name = rows[CHOOSE i \in Sharing(rows, attr, value) :
                        \A j \in Sharing(rows, attr, value) : i <= j].name

FirstOf(rows, attr, ex) ==
    /\ NamesFirst(rows, attr, ex.max_name, ex.max_value)
    /\ NamesFirst(rows, attr, ex.min_name, ex.min_value)

\* C20: in every statistics response, when several rows share the extreme
\* sanitized value of a numeric attribute, the name reported for the extremum
\* is the name of the first of them in the order of the fetched rows, for the
\* maximum and for the minimum.
C20_FirstOfTies ==
    /\ StatsOf("people") =>
          LET m == last.resp.body.model
              rows == store["people"]
          IN  /\ NamesFirst(rows, "height", m.height_stats.tallest_person.name,
                            m.height_stats.tallest_person.height)
              /\ NamesFirst(rows, "height", m.height_stats.shortest_person.name,
                            m.height_stats.shortest_person.height)
              /\ NamesFirst(rows, "mass", m.mass_stats.heaviest_person.name,
                            m.mass_stats.heaviest_person.mass)
              /\ NamesFirst(rows, "mass", m.mass_stats.lightest_person.name,
                            m.mass_stats.lightest_person.mass)
    /\ StatsOf("planets") =>
          /\ FirstOf(store["planets"], "diameter", last.resp.body.model.size_stats)
          /\ FirstOf(store["planets"], "population", last.resp.body.model.population_stats)
    /\ StatsOf("starships") =>
          /\ FirstOf(store["starships"], "max_atmosphering_speed",
                     last.resp.body.model.speed_stats)
          /\ FirstOf(store["starships"], "hyperdrive_rating",
                     last.resp.body.model.performance_stats.hyperdrive)
    /\ StatsOf("vehicles") =>
          FirstOf(store["vehicles"], "max_atmosphering_speed", last.resp.body.model.speed_stats)
    /\ StatsOf("species") =>
          FirstOf(store["species"], "average_height", last.resp.body.model.height_stats)

\* The episode_id of each film, as integers
EpisodeIds == {store["films"][i].episode_id.v : i \in DOMAIN store["films"]}

\* The float is the integer n
IsInteger(x, n) == x # None /\ x.t = "float" /\ x.num = n * x.den

\* C21: in a films statistics response over films that all have an integer
\* episode_id, total_episodes is the number of films and earliest_episode and
\* latest_episode are the least and the greatest episode_id.
C21_EpisodeStats ==
    (/\ StatsOf("films")
     /\ store["films"] # <<>>
     /\ \A i \in DOMAIN store["films"] : store["films"][i].episode_id.t = "int")
    => /\ last.resp.body.model.episode_stats.total_episodes = IntV(Len(store["films"]))
       /\ IsInteger(last.resp.body.model.episode_stats.earliest_episode,
                    CHOOSE n \in EpisodeIds : \A k \in EpisodeIds : n <= k)
       /\ IsInteger(last.resp.body.model.episode_stats.latest_episode,
                    CHOOSE n \in EpisodeIds : \A k \in EpisodeIds : n >= k)

\* The present tokens of a field over the rows: the trimmed pieces that are no sentinel
TokensOf(rows, attr) ==
    UNION {IF rows[i][attr] = None THEN {}
           ELSE {Strip(Split(rows[i][attr].v, ",")[k]) : k \in PresentTokens(rows[i][attr])}
           : i \in DOMAIN rows}

\* C22: the tokens a statistics response reports for a multi-value field
\* (manufacturer of starships and vehicles, producer of films, colors of
\* species, climate and terrain of planets) are the trimmed comma-separated
\* pieces of the rows' values that are no sentinel: an absent or sentinel value
\* gives no token, and a sentinel among the pieces is no token.
C22_Tokens ==
    /\ StatsOf("starships") =>
          DOMAIN last.resp.body.model.manufacturer_stats.distribution
             = TokensOf(store["starships"], "manufacturer")
    /\ StatsOf("vehicles") =>
          DOMAIN last.resp.body.model.manufacturer_stats.distribution
             = TokensOf(store["vehicles"], "manufacturer")
    /\ StatsOf("films") =>
          last.resp.body.model.production_stats.producers = TokensOf(store["films"], "producer")
    /\ StatsOf("species") =>
          /\ last.resp.body.model.appearance_stats.skin_colors.all_colors
                = TokensOf(store["species"], "skin_colors")
          /\ last.resp.body.model.appearance_stats.hair_colors.all_colors
                = TokensOf(store["species"], "hair_colors")
          /\ last.resp.body.model.appearance_stats.eye_colors.all_colors
                = TokensOf(store["species"], "eye_colors")
    /\ StatsOf("planets") =>
          /\ last.resp.body.model.environment_stats.unique_climates
                = IntV(Cardinality(TokensOf(store["planets"], "climate")))
          /\ last.resp.body.model.environment_stats.unique_terrains
                = IntV(Cardinality(TokensOf(store["planets"], "terrain")))

\* The association rows of a list relationship of the route whose parent is stored
LinksOf(route, key) ==
    LET rel == RelOf(route, key)
    IN  {l \in links : /\ l[1] = rel.table
                       /\ IntV(IF rel.side = "L" THEN l[2] ELSE l[3]) \in Ids(store, route)}

\* The identifiers of the rows they relate to
LinkedIds(route, key) ==
    {IF RelOf(route, key).side = "L" THEN l[3] ELSE l[2] : l \in LinksOf(route, key)}

\* total_unique is the number of distinct related identifiers: no more than
\* the per-parent counts together, no less than the greatest of them
UnionNotSum(route, key, total_unique, max_count) ==
    /\ total_unique = IntV(Cardinality(LinkedIds(route, key)))
    /\ total_unique.v <= Cardinality(LinksOf(route, key))
    /\ total_unique.v >= max_count.v

FilmContents == {"characters", "planets", "species", "vehicles", "starships"}

\* C23: in a statistics response, total_unique of each film content
\* (characters, planets, species, vehicles, starships) and total_unique_pilots
\* of starships and vehicles is the number of distinct related rows over all
\* rows, a row related to several parents counted once: it is at most the sum
\* of the per-parent counts and at least the reported greatest count.
C23_TotalUnique ==
    /\ StatsOf("films") =>
          \A key \in FilmContents :
              UnionNotSum("films", key,
                          last.resp.body.model.content_stats[key].total_unique,
                          last.resp.body.model.content_stats[key].max_count)
    /\ StatsOf("starships") =>
          UnionNotSum("starships", "pilots",
                      last.resp.body.model.pilot_stats.total_unique_pilots,
                      last.resp.body.model.pilot_stats.most_pilots.count)
    /\ StatsOf("vehicles") =>
          UnionNotSum("vehicles", "pilots",
                      last.resp.body.model.pilot_stats.total_unique_pilots,
                      last.resp.body.model.pilot_stats.most_pilots.count)

\* C23, witnessed: two films have the same one character, counted once
C23_Witness ==
    /\ StatsOf("films")
    /\ Len(store["films"]) = 2
    /\ Cardinality(LinksOf("films", "characters")) = 2
    /\ last.resp.body.model.content_stats.characters.total_unique = IntV(1)
    /\ last.resp.body.model.content_stats.characters.max_count = IntV(1)

\* The identifier was given to a row of the route and no row has it: the row
\* was deleted with a 204 answer (identifiers are generated in order and only
\* a delete removes a row)
Deleted(route, id) == id.v <= ident[route] /\ ~HasRow(route, id)

\* This step serves handler h on the route, the store answering
Answering(h, route) ==
    /\ last = Idle
    /\ last' # Idle
    /\ last'.req.handler = h
    /\ last'.req.route = route
    /\ last'.exc = "none"

\* C24: once the row with an id was deleted, and while no create makes a row
\* with that id, every GET, PUT and DELETE of /{route}/{id} the store answers
\* is answered 404 Not found (a second DELETE too, not 204), GET /{route}
\* lists no document with the id, and the id stays without a row.
C24_DeletedStaysGone ==
    [][\A route \in ValidRoutes : \A id \in PathIds :
          Deleted(route, id) =>
             /\ \A h \in {"get_by_id", "update", "delete"} :
                   (Answering(h, route) /\ last'.req.id = id)
                   => last'.resp = Resp(404, ErrorDoc("Not found"))
             /\ Answering("get_all", route)
                   => \A i \in DOMAIN last'.resp.body.v : last'.resp.body.v[i].v["id"] # id
             /\ \A i \in DOMAIN store'[route] : store'[route][i].id # id
      ]_vars

\* C24, witnessed: a second DELETE of a deleted row was answered 404
C24_Witness ==
    /\ Served("delete")
    /\ OnValidRoute
    /\ last.exc = "none"
    /\ Deleted(last.req.route, last.req.id)
    /\ last.resp = Resp(404, ErrorDoc("Not found"))

\* C25: in every statistics response, total_count is the number of rows the
\* other statistics of the response were computed over, also when creates and
\* deletes of the route are committed during the request; so no availability
\* string has more present values than total_count and
\* species_without_homeworld is not negative.
C25_TotalCount ==
    (Served("get_statistics") /\ OnValidRoute /\ last.resp.status = 200)
    => /\ last.resp.body.total_count = IntV(Len(store[last.req.route]))
       /\ last.req.route = "people" =>
             /\ last.resp.body.model.height_stats.height_data_availability.present
                   <= last.resp.body.total_count.v
             /\ last.resp.body.model.mass_stats.mass_data_availability.present
                   <= last.resp.body.total_count.v
       /\ last.req.route = "species" =>
             last.resp.body.model.homeworld_stats.species_without_homeworld.v >= 0

\* C26: a request whose route is none of the six types is served without a
\* session being made and without a store operation, whatever the handler,
\* and leaves the store as it was.
C26_NoSession ==
    [][(last = Idle /\ last' # Idle /\ last'.req.route \notin ValidRoutes)
       => /\ last'.trace = <<>>
          /\ store' = store
          /\ links' = links
          /\ ident' = ident
      ]_vars

\* C26, witnessed: create was served on the token "droids" with a JSON object
\* and made no session
C26_Witness ==
    /\ Served("create")
    /\ last.req.route = "droids"
    /\ last.req.body.t = "dict"
    /\ last.trace = <<>>
    /\ last.resp = Resp(404, ErrorDoc("Invalid route"))

\* C27: a create, update or delete that is answered 400 or 500 leaves the
\* committed store as it was before the request: no row added, removed or
\* changed.
C27_ErrorsKeepStore ==
    [][(/\ last = Idle
        /\ last' # Idle
        /\ last'.req.handler \in {"create", "update", "delete"}
        /\ last'.resp.status \in {400, 500})
       => /\ store' = store
          /\ links' = links
      ]_vars

Greatest(S) == IF S = {} THEN 0 ELSE CHOOSE m \in S : \A n \in S : n <= m

\* The nesting depth of a JSON value: the objects on its deepest path
RECURSIVE Depth(_)
Depth(x) ==
    IF x.t = "dict" THEN 1 + Greatest({Depth(x.v[k]) : k \in DOMAIN x.v})
    ELSE IF x.t = "list" THEN Greatest({Depth(x.v[i]) : i \in DOMAIN x.v})
    ELSE 0

\* The documents directly under the keys of document d
NestedIn(d) ==
    {d.v[k] : k \in {k \in DOMAIN d.v : d.v[k].t = "dict"}}
    \cup UNION {{d.v[k].v[i] : i \in {i \in DOMAIN d.v[k].v : d.v[k].v[i].t = "dict"}}
                   : k \in {k \in DOMAIN d.v : d.v[k].t = "list"}}

\* C29: every document of a 200 answer of GET /{route} or GET /{route}/{id},
\* over rows whose relationships lead back to them, is a finite value of
\* nesting depth at most two: a related row is serialized as a document whose
\* values are scalars and lists of identifiers, never documents.
C29_OneLevel ==
    (last # Idle /\ last.req.handler \in {"get_all", "get_by_id"} /\ last.resp.status = 200)
    => \A d \in Documents :
          /\ Depth(d) <= 2
          /\ \A n \in NestedIn(d) :
                \A k \in DOMAIN n.v :
                    /\ n.v[k].t # "dict"
                    /\ n.v[k].t = "list" => IsIdList(n.v[k])

\* C29, witnessed: film 1 was read with its relationships, and its character's
\* document names film 1 among the identifiers of its films
C29_Witness ==
    /\ Served("get_by_id")
    /\ last.req.route = "films"
    /\ last.req.id = IntV(1)
    /\ last.resp.status = 200
    /\ "characters" \in DOMAIN last.resp.body.v
    /\ Len(last.resp.body.v["characters"].v) >= 1
    /\ \E i \in DOMAIN last.resp.body.v["characters"].v[1].v["films_ids"].v :
          last.resp.body.v["characters"].v[1].v["films_ids"].v[i] = IntV(1)
    /\ Depth(last.resp.body) = 2

\* C30: in a species statistics response whose total_count is the number of
\* species read, as it is when nothing is written during the request,
\* species_with_homeworld is the number of species that have a homeworld,
\* species_with_homeworld + species_without_homeworld is total_count, neither
\* is negative, and the counts of homeworld_distribution sum to
\* species_with_homeworld.
C30_Homeworlds ==
    (/\ Served("get_statistics")
     /\ last.req.route = "species"
     /\ last.resp.status = 200
     /\ last.resp.body.total_count = IntV(Len(store["species"])))
    => LET h == last.resp.body.model.homeworld_stats
           species == store["species"]
       IN  /\ h.species_with_homeworld.v =
                 Cardinality({i \in DOMAIN species : species[i].homeworld_id # None})
           /\ h.species_with_homeworld.v + h.species_without_homeworld.v
                 = last.resp.body.total_count.v
           /\ h.species_with_homeworld.v >= 0
           /\ h.species_without_homeworld.v >= 0
           /\ DistributionSum(h.homeworld_distribution) = h.species_with_homeworld.v

\* C30, witnessed: two species of one homeworld were counted under its name
C30_Witness ==
    /\ Served("get_statistics")
    /\ last.req.route = "species"
    /\ last.resp.status = 200
    /\ last.resp.body.total_count = IntV(2)
    /\ Len(store["species"]) = 2
    /\ last.resp.body.model.homeworld_stats.species_with_homeworld = IntV(2)
    /\ last.resp.body.model.homeworld_stats.homeworld_distribution = (LabelOf(1) :> IntV(2))

====
